---------------------------- MODULE Spec2Model ----------------------------
(***************************************************************************)
(* Model of the HRV analytic core of the dashboard:                        *)
(*   dashboard/hrv/index_1.py  night aggregation, static baselines,        *)
(*                             sleep-quality / recovery scores, sleep      *)
(*                             stages and stage minutes;                   *)
(*   dashboard/hrv/index_2.py  stress index and the day-by-day dynamic     *)
(*                             (expanding-window) baselines.               *)
(*                                                                         *)
(* Numbers.  A float is modelled as an exact rational <<n, d>> with d > 0  *)
(* in lowest terms; NaN (a missing value) is <<0, 0>>.  Python's min, max  *)
(* and comparison operators are modelled with their NaN behaviour: every   *)
(* comparison with NaN is false, min(a, b) is a unless b < a, max(a, b) is *)
(* a unless b > a.  round(x, 1) is rounding to the nearest tenth, ties to  *)
(* the even tenth.                                                         *)
(***************************************************************************)
EXTENDS Integers, Sequences, FiniteSets, TLC

VARIABLES
    pc,                     \* where the run stands
    df,                     \* the record table fetched from the database
    night_data,             \* index_1.main: the NightMetrics table
    baselines,              \* index_1.main: the static baseline mapping
    daily_report,           \* index_1.main: the daily report of the latest night
    passed_sleep_records,   \* index_1.main line 667: sleep_records, as passed on
    quality_components,     \* index_1.main: the sleep quality components shown
    sleep_with_stages,      \* index_1.main: the latest night's records, staged
    sleep_summary,          \* index_1.main: the latest night's stage minutes
    weekly,                 \* index_1.main: the weekly trend's stage minutes
    unique_dates,           \* dynamic baselines: the dates to process
    result_data,            \* dynamic baselines: the rows emitted so far
    cumulative_sleep,       \* dynamic baselines: Sleep records up to the date
    cumulative_non_sleep,   \* dynamic baselines: other records up to the date
    returned,               \* what the last calls of the dynamic baselines returned
    stress_args,            \* the four arguments of calculate_stress_index
    stress_ret,             \* what calculate_stress_index returned
    db,                     \* delete_session: the four tables, as the connection sees them
    db_before,              \* delete_session: the tables when the call began
    session_ids,            \* delete_session: the ids of the sessions to delete
    exclude_arg,            \* delete_session: the recording_session_id given
    exclude_ret             \* delete_session: what the call returned

index1Vars ==
    <<night_data, baselines, daily_report, passed_sleep_records, sleep_with_stages,
      quality_components, sleep_summary, weekly>>

dynVars == <<unique_dates, result_data, cumulative_sleep, cumulative_non_sleep, returned>>

stressVars == <<stress_args, stress_ret>>

excludeVars == <<db, db_before, session_ids, exclude_arg, exclude_ret>>

vars == <<pc, df, index1Vars, dynVars, stressVars, excludeVars>>

(***************************************************************************)
(* Rational arithmetic with NaN.                                           *)
(***************************************************************************)
NaN == <<0, 0>>

Abs(i) == IF i < 0 THEN -i ELSE i

RECURSIVE GCD(_, _)
GCD(a, b) == IF b = 0 THEN a ELSE GCD(b, a % b)

\* The float n/d (d # 0), in lowest terms with a positive denominator.
Frac(n, d) ==
    LET g == GCD(Abs(n), Abs(d))
        s == IF d < 0 THEN -1 ELSE 1
    IN  <<(s * n) \div g, (s * d) \div g>>

Num(i) == <<i, 1>>

isna(x) == x[2] = 0

\* Denominators are cancelled before multiplying, so that intermediate
\* values stay small.
Add(x, y) == IF isna(x) \/ isna(y) THEN NaN
             ELSE LET g == GCD(x[2], y[2])
                  IN  Frac(x[1] * (y[2] \div g) + y[1] * (x[2] \div g),
                           (x[2] \div g) * y[2])

Sub(x, y) == IF isna(x) \/ isna(y) THEN NaN
             ELSE LET g == GCD(x[2], y[2])
                  IN  Frac(x[1] * (y[2] \div g) - y[1] * (x[2] \div g),
                           (x[2] \div g) * y[2])

Mul(x, y) == IF isna(x) \/ isna(y) THEN NaN
             ELSE LET g1 == GCD(Abs(x[1]), y[2])
                      g2 == GCD(Abs(y[1]), x[2])
                  IN  Frac((x[1] \div g1) * (y[1] \div g2),
                           (x[2] \div g2) * (y[2] \div g1))

\* x / y; every division of the program is guarded against a zero divisor
\* or divides by a non-zero literal.
Div(x, y) == IF isna(x) \/ isna(y) \/ y[1] = 0 THEN NaN
             ELSE Mul(x, Frac(y[2], y[1]))

\* Python's comparison operators: False as soon as one side is NaN.
Lt(x, y) == /\ ~isna(x) /\ ~isna(y)
            /\ LET g == GCD(x[2], y[2])
               IN  x[1] * (y[2] \div g) < y[1] * (x[2] \div g)

Le(x, y) == /\ ~isna(x) /\ ~isna(y)
            /\ LET g == GCD(x[2], y[2])
               IN  x[1] * (y[2] \div g) <= y[1] * (x[2] \div g)

Gt(x, y) == Lt(y, x)

Ge(x, y) == Le(y, x)

\* Python's built-in min(a, b) and max(a, b) on two arguments.
PyMin(a, b) == IF Lt(b, a) THEN b ELSE a

PyMax(a, b) == IF Gt(b, a) THEN b ELSE a

\* round(x, 2): the nearest hundredth, ties to even; NaN stays NaN.
Round2(x) ==
    IF isna(x) THEN NaN
    ELSE LET q == (100 * x[1]) \div x[2]
             r == (100 * x[1]) - q * x[2]
             up == \/ 2 * r > x[2]
                   \/ (2 * r = x[2] /\ q % 2 = 1)
         IN  Frac(IF up THEN q + 1 ELSE q, 100)

\* round(x, 1): the nearest tenth, ties to even; NaN stays NaN.
Round1(x) ==
    IF isna(x) THEN NaN
    ELSE LET q == (10 * x[1]) \div x[2]
             r == (10 * x[1]) - q * x[2]
             up == \/ 2 * r > x[2]
                   \/ (2 * r = x[2] /\ q % 2 = 1)
         IN  Frac(IF up THEN q + 1 ELSE q, 10)

(***************************************************************************)
(* Tables and mappings.  A table (a DataFrame) is its set of columns that  *)
(* matter here and its sequence of rows; pd.DataFrame() is the table with  *)
(* no column and no row.  A mapping (a dict) is a function on its keys.    *)
(***************************************************************************)
EmptyTable == [columns |-> {}, rows |-> <<>>]

empty(table) == table.rows = <<>>

EmptyMapping == [k \in {} |-> NaN]

\* dict.get(key, default)
get(mapping, key, default) ==
    IF key \in DOMAIN mapping THEN mapping[key] ELSE default

\* delete_session.py: the database without a row, and the state of the
\* other pages, which never call exclude_records_by_session_id.
EmptyDb == [hrv_sessions |-> {}, rr_intervals |-> {}, hrv_metrics |-> {},
            session_tags |-> {}]

\* None of a returned pair is -1 as a count and "None" as an error.
NoExcludeCall == [count |-> -1, error |-> "None"]

ExcludeIdle ==
    /\ db = EmptyDb
    /\ db_before = EmptyDb
    /\ session_ids = {}
    /\ exclude_arg = ""
    /\ exclude_ret = NoExcludeCall

NightColumns == {"date", "mean_rr", "sdnn", "rmssd", "lf_hf_ratio", "breathing_rate",
                 "mean_hr", "rhr", "record_count", "duration_minutes"}

(***************************************************************************)
(* The record table df.  A record is one recording session: its date and   *)
(* minute of the day (its timestamp in Europe/Berlin), its heart rate, the *)
(* HRV metrics left-joined from hrv_metrics (NaN when the session has no   *)
(* metrics row) and its tags, the list array_agg built.  The columns       *)
(* pnn50, cv_rr, lfPower, hfPower and the quality columns are carried      *)
(* through plain means that nothing downstream reads; they are left out.   *)
(***************************************************************************)
MaxRecs == 3

BaselineDays == 14

SleepA == [minute |-> 0, heartRate |-> Num(50), mean_rr |-> Num(1200), sdnn |-> Num(70),
           rmssd |-> Num(60), lfHfRatio |-> Frac(1, 2), breathingRate |-> Num(12),
           tags |-> {"Sleep"}]

SleepB == [minute |-> 200, heartRate |-> Num(70), mean_rr |-> Num(800), sdnn |-> Num(30),
           rmssd |-> Num(20), lfHfRatio |-> Num(3), breathingRate |-> Num(16),
           tags |-> {"Sleep"}]

SleepC == [minute |-> 100, heartRate |-> Num(60), mean_rr |-> Num(1000), sdnn |-> Num(50),
           rmssd |-> Num(40), lfHfRatio |-> Frac(3, 2), breathingRate |-> Num(14),
           tags |-> {"Sleep"}]

\* A Sleep session without a metrics row.
SleepD == [minute |-> 300, heartRate |-> Num(56), mean_rr |-> NaN, sdnn |-> NaN,
           rmssd |-> NaN, lfHfRatio |-> NaN, breathingRate |-> NaN,
           tags |-> {"Sleep"}]

\* A daytime session.
DayE == [minute |-> 600, heartRate |-> Num(80), mean_rr |-> Num(750), sdnn |-> Num(40),
         rmssd |-> Num(30), lfHfRatio |-> Frac(5, 2), breathingRate |-> Num(18),
         tags |-> {"Rest"}]

\* A later daytime session.
DayF == [minute |-> 660, heartRate |-> Num(90), mean_rr |-> Num(660), sdnn |-> Num(35),
         rmssd |-> Num(25), lfHfRatio |-> Num(3), breathingRate |-> Num(20),
         tags |-> {"Rest"}]

\* The tags value 'Sleep', a string and not a list: 'Sleep' in x holds for
\* it, isinstance(x, list) does not.
StrSleep == {"Sleep", "<str>"}

\* A session whose tags are the string 'Sleep'.
DayG == [minute |-> 720, heartRate |-> Num(85), mean_rr |-> Num(700), sdnn |-> Num(35),
         rmssd |-> Num(25), lfHfRatio |-> Num(3), breathingRate |-> Num(19),
         tags |-> StrSleep]

On(date, session) == [k \in DOMAIN session \cup {"date"} |->
                         IF k = "date" THEN date ELSE session[k]]

\* Two nearby dates with a gap between them, and a date more than
\* BaselineDays later.
RecordSet ==
    {On(1, s) : s \in {SleepA, SleepB, SleepC, DayE}}
    \cup {On(3, s) : s \in {SleepA, SleepB, SleepD, DayE}}
    \cup {On(20, s) : s \in {SleepB, DayF}}

RecordTables == UNION {[1..n -> RecordSet] : n \in 0..MaxRecs}

(***************************************************************************)
(* pandas Series and DataFrame operations, on sequences of records.        *)
(***************************************************************************)
Column(recs, name) == [i \in 1..Len(recs) |-> recs[i][name]]

dropna(vals) == SelectSeq(vals, LAMBDA v : ~isna(v))

RECURSIVE SortedInsert(_, _)
SortedInsert(sorted, v) ==
    IF sorted = <<>> THEN <<v>>
    ELSE IF Le(v, Head(sorted)) THEN <<v>> \o sorted
    ELSE <<Head(sorted)>> \o SortedInsert(Tail(sorted), v)

\* The non-missing values in ascending order.
RECURSIVE sort_values(_)
sort_values(vals) ==
    IF vals = <<>> THEN <<>>
    ELSE IF isna(Head(vals)) THEN sort_values(Tail(vals))
    ELSE SortedInsert(sort_values(Tail(vals)), Head(vals))

RECURSIVE Sum(_)
Sum(vals) == IF vals = <<>> THEN Num(0) ELSE Add(Head(vals), Sum(Tail(vals)))

\* Series.mean(): the mean of the non-missing values, NaN when there is none.
mean(vals) ==
    LET v == dropna(vals)
    IN  IF v = <<>> THEN NaN ELSE Div(Sum(v), Num(Len(v)))

\* Series.min(): the least non-missing value, NaN when there is none.
min(vals) ==
    LET v == sort_values(vals)
    IN  IF v = <<>> THEN NaN ELSE v[1]

\* Series.quantile(a/b), pandas' default linear interpolation over the
\* non-missing values: position (n-1)*a/b between the sorted neighbours.
quantile(vals, a, b) ==
    LET v == sort_values(vals)
        n == Len(v)
        lo == ((n - 1) * a) \div b
        rest == ((n - 1) * a) % b
    IN  IF n = 0 THEN NaN
        ELSE IF rest = 0 THEN v[lo + 1]
        ELSE Add(v[lo + 1], Mul(Sub(v[lo + 2], v[lo + 1]), Frac(rest, b)))

\* Series.median()
median(vals) == quantile(vals, 1, 2)

\* isinstance(x, list): a tags value that is a list is the set of its names;
\* StrSleep below is the one value that is not a list.
is_list(tags) == "<str>" \notin tags

\* A mutated Sleep test without the isinstance test.
IsSleepWithoutListTest(rec) == "Sleep" \in rec.tags

\* lambda x: 'Sleep' in x if isinstance(x, list) else False
is_sleep(rec) == IF is_list(rec.tags) THEN "Sleep" \in rec.tags ELSE FALSE

sleep_only(recs) == SelectSeq(recs, is_sleep)

not_sleep(recs) == SelectSeq(recs, LAMBDA r : ~is_sleep(r))

on_date(recs, date) == SelectSeq(recs, LAMBDA r : r.date = date)

\* Series.unique(): the distinct values in order of first appearance.
RECURSIVE unique(_)
unique(vals) ==
    IF vals = <<>> THEN <<>>
    ELSE LET front == unique(SubSeq(vals, 1, Len(vals) - 1))
             last == vals[Len(vals)]
         IN  IF \E i \in 1..Len(front) : front[i] = last THEN front
             ELSE Append(front, last)

RECURSIVE IntInsert(_, _)
IntInsert(s, v) ==
    IF s = <<>> THEN <<v>>
    ELSE IF v <= Head(s) THEN <<v>> \o s
    ELSE <<Head(s)>> \o IntInsert(Tail(s), v)

\* sorted() of a list of dates.
RECURSIVE sorted(_)
sorted(values) ==
    IF values = <<>> THEN <<>> ELSE IntInsert(sorted(Tail(values)), Head(values))

MaxOf(S) == CHOOSE x \in S : \A y \in S : y <= x

MinOf(S) == CHOOSE x \in S : \A y \in S : x <= y

Range(s) == {s[i] : i \in 1..Len(s)}

\* (max(timestamp) - min(timestamp)).total_seconds() / 60.0 of records of
\* one date.
span_minutes(recs) ==
    Num(MaxOf(Range(Column(recs, "minute"))) - MinOf(Range(Column(recs, "minute"))))

(***************************************************************************)
(* calculate_night_metrics (index_1.py)                                    *)
(***************************************************************************)
\* A mutated resting heart rate whose percentile branch starts at 4 records.
NightRhrOffByOne(group) ==
    IF Len(group) > 3 THEN quantile(Column(group, "heartRate"), 1, 10)
    ELSE min(Column(group, "heartRate"))

\* lines 111-115: the night's resting heart rate.
night_rhr(group) ==
    IF Len(group) >= 3 THEN quantile(Column(group, "heartRate"), 1, 10)
    ELSE min(Column(group, "heartRate"))

night_row(date, group) ==
    LET mean_rr == mean(Column(group, "mean_rr"))
    IN  [date |-> date,
         mean_rr |-> mean_rr,
         sdnn |-> mean(Column(group, "sdnn")),
         rmssd |-> mean(Column(group, "rmssd")),
         lf_hf_ratio |-> mean(Column(group, "lfHfRatio")),
         breathing_rate |-> mean(Column(group, "breathingRate")),
         mean_hr |-> IF ~isna(mean_rr) /\ Gt(mean_rr, Num(0))
                     THEN Div(Num(60000), mean_rr) ELSE NaN,
         rhr |-> night_rhr(group),
         record_count |-> Len(group),
         duration_minutes |-> span_minutes(group),
         sleep_quality |-> NaN,
         recovery_score |-> NaN]

\* A mutated aggregator that groups every record, Sleep-tagged or not.
NightMetricsOfAllRecords(frame) ==
    IF frame = <<>> THEN EmptyTable
    ELSE LET keys == sorted(unique(Column(frame, "date")))
         IN  [columns |-> NightColumns,
              rows |-> [i \in 1..Len(keys) |-> night_row(keys[i], on_date(frame, keys[i]))]]

\* lines 94-101: the table passed to calculate_night_metrics, after the
\* call; the date column is set on sleep_df, the filtered copy.
night_metrics_argument(frame) == frame

calculate_night_metrics(frame) ==
    LET sleep_df == sleep_only(frame)
    IN  IF sleep_df = <<>> THEN EmptyTable
        ELSE LET keys == sorted(unique(Column(sleep_df, "date")))
             IN  [columns |-> NightColumns,
                  rows |-> [i \in 1..Len(keys) |->
                               night_row(keys[i], on_date(sleep_df, keys[i]))]]

(***************************************************************************)
(* calculate_baselines (index_1.py)                                        *)
(***************************************************************************)
\* A mutated baseline computation over all records, without the window.
BaselinesWithoutWindow(frame, days) ==
    IF frame = <<>> THEN EmptyMapping
    ELSE LET sleep_sessions == sleep_only(frame)
         IN  IF sleep_sessions = <<>> THEN EmptyMapping
             ELSE [k \in {"hrv", "rhr", "sdnn", "breathing_rate", "hr", "lf_hf_ratio"} |->
                     CASE k = "hrv" -> median(Column(sleep_sessions, "rmssd"))
                       [] k = "rhr" -> quantile(Column(sleep_sessions, "heartRate"), 1, 10)
                       [] k = "sdnn" -> median(Column(sleep_sessions, "sdnn"))
                       [] k = "breathing_rate" ->
                              median(Column(sleep_sessions, "breathingRate"))
                       [] k = "hr" -> mean(Column(frame, "heartRate"))
                       [] OTHER -> median(Column(sleep_sessions, "lfHfRatio"))]

\* A mutated baseline computation that sets the hr key before it looks for
\* Sleep sessions.
BaselinesHrWithoutSleep(frame, days) ==
    IF frame = <<>> THEN EmptyMapping
    ELSE LET latest_date == MaxOf(Range(Column(frame, "date")))
             cutoff_date == latest_date - days
             baseline_df == SelectSeq(frame, LAMBDA r : r.date >= cutoff_date)
             sleep_sessions == sleep_only(baseline_df)
         IN  IF sleep_sessions = <<>>
             THEN [k \in {"hr"} |-> mean(Column(baseline_df, "heartRate"))]
             ELSE [k \in {"hrv", "rhr", "sdnn", "breathing_rate", "hr", "lf_hf_ratio"} |->
                     CASE k = "hrv" -> median(Column(sleep_sessions, "rmssd"))
                       [] k = "rhr" -> quantile(Column(sleep_sessions, "heartRate"), 1, 10)
                       [] k = "sdnn" -> median(Column(sleep_sessions, "sdnn"))
                       [] k = "breathing_rate" ->
                              median(Column(sleep_sessions, "breathingRate"))
                       [] k = "hr" -> mean(Column(baseline_df, "heartRate"))
                       [] OTHER -> median(Column(sleep_sessions, "lfHfRatio"))]

calculate_baselines(frame, days) ==
    IF frame = <<>> THEN EmptyMapping
    ELSE LET latest_date == MaxOf(Range(Column(frame, "date")))
             cutoff_date == latest_date - days
             baseline_df == SelectSeq(frame, LAMBDA r : r.date >= cutoff_date)
             sleep_sessions == sleep_only(baseline_df)
         IN  IF sleep_sessions = <<>> THEN EmptyMapping
             ELSE [k \in {"hrv", "rhr", "sdnn", "breathing_rate", "hr", "lf_hf_ratio"} |->
                     CASE k = "hrv" -> median(Column(sleep_sessions, "rmssd"))
                       [] k = "rhr" -> quantile(Column(sleep_sessions, "heartRate"), 1, 10)
                       [] k = "sdnn" -> median(Column(sleep_sessions, "sdnn"))
                       [] k = "breathing_rate" ->
                              median(Column(sleep_sessions, "breathingRate"))
                       [] k = "hr" -> mean(Column(baseline_df, "heartRate"))
                       [] OTHER -> median(Column(sleep_sessions, "lfHfRatio"))]

(***************************************************************************)
(* calculate_recovery_score (index_1.py): the score components, the sleep  *)
(* quality and the recovery score of one night row, then the whole call.   *)
(***************************************************************************)
hrv_score(row, b) ==
    LET rmssd == row.rmssd
        baseline_rmssd == get(b, "hrv", rmssd)
    IN  IF Gt(baseline_rmssd, Num(0)) /\ Gt(rmssd, Num(0))
        THEN PyMin(Div(rmssd, baseline_rmssd), Num(1))
        ELSE Frac(1, 2)

\* A mutated rhr_score that tests the baseline only before it divides.
RhrScoreGuardsBaselineOnly(row, b) ==
    LET rhr == row.rhr
        baseline_rhr == get(b, "rhr", rhr)
    IN  IF Gt(baseline_rhr, Num(0))
        THEN PyMin(Div(baseline_rhr, rhr), Num(1))
        ELSE Frac(1, 2)

rhr_score(row, b) ==
    LET rhr == row.rhr
        baseline_rhr == get(b, "rhr", rhr)
    IN  IF Gt(baseline_rhr, Num(0)) /\ Gt(rhr, Num(0))
        THEN PyMin(Div(baseline_rhr, rhr), Num(1))
        ELSE Frac(1, 2)

hr_drop_score(row, b) ==
    LET avg_hr == row.mean_hr
        baseline_hr == get(b, "hr", avg_hr)
    IN  IF Gt(baseline_hr, Num(0))
        THEN Div(Sub(baseline_hr, avg_hr), baseline_hr)
        ELSE Num(0)

duration_score(row) == PyMin(Div(row.duration_minutes, Num(420)), Num(1))

lfhf_penalty(row) ==
    IF Lt(row.lf_hf_ratio, Num(2)) THEN Num(1)
    ELSE IF Lt(row.lf_hf_ratio, Num(4)) THEN Frac(4, 5)
    ELSE Frac(1, 2)

\* lines 225, 228 and 232: the divisors of the divisions one row evaluates.
evaluated_divisors(row, b) ==
    LET baseline_rmssd == get(b, "hrv", row.rmssd)
        baseline_rhr == get(b, "rhr", row.rhr)
        baseline_hr == get(b, "hr", row.mean_hr)
    IN  (IF Gt(baseline_rmssd, Num(0)) /\ Gt(row.rmssd, Num(0))
         THEN {baseline_rmssd} ELSE {})
        \cup (IF Gt(baseline_rhr, Num(0)) /\ Gt(row.rhr, Num(0)) THEN {row.rhr} ELSE {})
        \cup (IF Gt(baseline_hr, Num(0)) THEN {baseline_hr} ELSE {})

\* A mutated sleep quality that is not capped at [0, 100].
SleepQualityUncapped(row, b) ==
    Mul(Add(Add(Mul(Frac(2, 5), hrv_score(row, b)),
                Mul(Frac(3, 10), hr_drop_score(row, b))),
            Add(Mul(Frac(1, 5), duration_score(row)),
                Mul(Frac(1, 10), lfhf_penalty(row)))),
        Num(100))

\* sleep_quality before it is rounded for storing.
sleep_quality(row, b) ==
    LET raw == Mul(Add(Add(Mul(Frac(2, 5), hrv_score(row, b)),
                           Mul(Frac(3, 10), hr_drop_score(row, b))),
                       Add(Mul(Frac(1, 5), duration_score(row)),
                           Mul(Frac(1, 10), lfhf_penalty(row)))),
                   Num(100))
    IN  PyMax(Num(0), PyMin(Num(100), raw))

\* A mutated recovery score with the weights of hrv_score and rhr_score
\* exchanged.
RecoveryWeightsSwapped(row, b) ==
    LET raw == Mul(Add(Add(Mul(Frac(3, 10), hrv_score(row, b)),
                           Mul(Frac(1, 2), rhr_score(row, b))),
                       Mul(Frac(1, 5), Div(sleep_quality(row, b), Num(100)))),
                   Num(100))
    IN  PyMax(Num(0), PyMin(Num(100), raw))

\* A mutated recovery score that takes every night's sleep quality as 100.
RecoveryWithoutSleepQuality(row, b) ==
    LET raw == Mul(Add(Add(Mul(Frac(1, 2), hrv_score(row, b)),
                           Mul(Frac(3, 10), rhr_score(row, b))),
                       Frac(1, 5)),
                   Num(100))
    IN  PyMax(Num(0), PyMin(Num(100), raw))

\* recovery_score before it is rounded for storing.
recovery_score(row, b) ==
    LET raw == Mul(Add(Add(Mul(Frac(1, 2), hrv_score(row, b)),
                           Mul(Frac(3, 10), rhr_score(row, b))),
                       Mul(Frac(1, 5), Div(sleep_quality(row, b), Num(100)))),
                   Num(100))
    IN  PyMax(Num(0), PyMin(Num(100), raw))

calculate_recovery_score(nights, b) ==
    IF empty(nights) \/ DOMAIN b = {}
    THEN nights
    ELSE [columns |-> nights.columns \cup {"recovery_score", "sleep_quality"},
          rows |-> [i \in 1..Len(nights.rows) |->
                       [nights.rows[i] EXCEPT
                           !.sleep_quality = Round1(sleep_quality(nights.rows[i], b)),
                           !.recovery_score = Round1(recovery_score(nights.rows[i], b))]]]

(***************************************************************************)
(* create_daily_report (index_1.py).  The nested dict is flattened: the    *)
(* key hr_value is report["hr"]["value"], and so on.  The string "N/A" of  *)
(* hr_change is NaN; a change is the number its ":.1f" format prints.      *)
(***************************************************************************)
\* x if not pd.isna(x) else 0
or_zero(value) == IF isna(value) THEN Num(0) ELSE value

\* night_data.sort_values('date', ascending=False).iloc[0]
latest_day_of(nights) ==
    LET i == CHOOSE k \in 1..Len(nights.rows) :
                 \A j \in 1..Len(nights.rows) : nights.rows[j].date <= nights.rows[k].date
    IN  nights.rows[i]

create_daily_report(nights, b) ==
    IF empty(nights) THEN EmptyMapping
    ELSE LET latest_day == latest_day_of(nights)
             column_or_zero(name) ==
                 IF name \in nights.columns THEN or_zero(latest_day[name]) ELSE Num(0)
         IN  [date |-> latest_day.date,
              hr_value |-> Round1(or_zero(latest_day.mean_hr)),
              hr_baseline |-> Round1(get(b, "hr", Num(0))),
              hr_change |->
                  IF ~isna(latest_day.mean_hr) /\ Gt(get(b, "hr", Num(0)), Num(0))
                  THEN Round1(Mul(Sub(Div(latest_day.mean_hr, get(b, "hr", Num(1))),
                                      Num(1)),
                                  Num(100)))
                  ELSE NaN,
              hrv_rmssd |-> Round1(or_zero(latest_day.rmssd)),
              hrv_baseline |-> Round1(get(b, "hrv", Num(0))),
              hrv_score |->
                  Round2(IF ~isna(latest_day.rmssd) /\ Gt(get(b, "hrv", Num(0)), Num(0))
                         THEN Div(latest_day.rmssd, get(b, "hrv", Num(1)))
                         ELSE Num(0)),
              rhr_value |-> Round1(or_zero(latest_day.rhr)),
              rhr_baseline |-> Round1(get(b, "rhr", Num(0))),
              rhr_score |->
                  Round2(IF ~isna(latest_day.rhr) /\ Gt(latest_day.rhr, Num(0))
                         THEN Div(get(b, "rhr", Num(0)), latest_day.rhr)
                         ELSE Num(0)),
              breathing_rate_value |-> Round1(or_zero(latest_day.breathing_rate)),
              breathing_rate_baseline |-> Round1(get(b, "breathing_rate", Num(0))),
              recovery_score |-> Round1(column_or_zero("recovery_score")),
              sleep_quality |-> Round1(column_or_zero("sleep_quality")),
              sleep_duration |-> latest_day.duration_minutes[1]
                                     \div latest_day.duration_minutes[2]]

(***************************************************************************)
(* detect_sleep_stages (index_1.py) and the stage minutes main derives.    *)
(***************************************************************************)
\* A mutated stage test without the test for missing values.
SleepStageMissingNotUnknown(rec, sleep_df) ==
    LET hr == rec.heartRate
        rmssd == rec.rmssd
        lf_hf == rec.lfHfRatio
        hr_p20 == quantile(Column(sleep_df, "heartRate"), 1, 5)
        rmssd_p30 == quantile(Column(sleep_df, "rmssd"), 3, 10)
        rmssd_p80 == quantile(Column(sleep_df, "rmssd"), 4, 5)
        mean_hr == mean(Column(sleep_df, "heartRate"))
    IN  IF Le(hr, hr_p20) /\ Ge(rmssd, rmssd_p80) /\ Lt(lf_hf, Num(1)) THEN "Deep"
        ELSE IF Gt(hr, mean_hr) /\ Le(rmssd, rmssd_p30) /\ Gt(lf_hf, Num(2)) THEN "REM"
        ELSE "Light"

sleep_stage(rec, sleep_df) ==
    LET hr == rec.heartRate
        rmssd == rec.rmssd
        lf_hf == rec.lfHfRatio
        hr_p20 == quantile(Column(sleep_df, "heartRate"), 1, 5)
        rmssd_p30 == quantile(Column(sleep_df, "rmssd"), 3, 10)
        rmssd_p80 == quantile(Column(sleep_df, "rmssd"), 4, 5)
        mean_hr == mean(Column(sleep_df, "heartRate"))
    IN  IF isna(hr) \/ isna(rmssd) \/ isna(lf_hf) THEN "Unknown"
        ELSE IF Le(hr, hr_p20) /\ Ge(rmssd, rmssd_p80) /\ Lt(lf_hf, Num(1)) THEN "Deep"
        ELSE IF Gt(hr, mean_hr) /\ Le(rmssd, rmssd_p30) /\ Gt(lf_hf, Num(2)) THEN "REM"
        ELSE "Light"

\* The sleep_stage column of the returned table, row by row.
detect_sleep_stages(sleep_df) ==
    [i \in 1..Len(sleep_df) |-> sleep_stage(sleep_df[i], sleep_df)]

\* lines 296-298: the Deep test of one record with defined values.
deep_criteria(rec, sleep_df) ==
    /\ Le(rec.heartRate, quantile(Column(sleep_df, "heartRate"), 1, 5))
    /\ Ge(rec.rmssd, quantile(Column(sleep_df, "rmssd"), 4, 5))
    /\ Lt(rec.lfHfRatio, Num(1))

\* A mutated REM test that looks at rmssd only.
RemCriteriaRmssdOnly(rec, sleep_df) ==
    Le(rec.rmssd, quantile(Column(sleep_df, "rmssd"), 3, 10))

\* lines 301-303: the REM test of one record with defined values.
rem_criteria(rec, sleep_df) ==
    /\ Gt(rec.heartRate, mean(Column(sleep_df, "heartRate")))
    /\ Le(rec.rmssd, quantile(Column(sleep_df, "rmssd"), 3, 10))
    /\ Gt(rec.lfHfRatio, Num(2))

\* A mutated call that adds the sleep_stage column to the table it was
\* given, not to a copy.
StagedInPlace(sleep_df) ==
    [i \in 1..Len(sleep_df) |->
        [k \in DOMAIN sleep_df[i] \cup {"sleep_stage"} |->
            IF k = "sleep_stage" THEN detect_sleep_stages(sleep_df)[i]
            ELSE sleep_df[i][k]]]

\* lines 271-280: the table passed to detect_sleep_stages, after the call;
\* the column is added to result_df, a copy.
stages_argument(sleep_df) == sleep_df

\* lines 280 and 309: the returned table, a copy of sleep_df with the
\* sleep_stage column added.
with_stages(sleep_df) ==
    [i \in 1..Len(sleep_df) |->
        [k \in DOMAIN sleep_df[i] \cup {"sleep_stage"} |->
            IF k = "sleep_stage" THEN detect_sleep_stages(sleep_df)[i]
            ELSE sleep_df[i][k]]]

\* stage_counts.get(stage, 0)
stage_count(stages, stage) == Cardinality({i \in 1..Len(stages) : stages[i] = stage})

\* main, lines 674-694: the latest night's stage minutes, each rounded to
\* one decimal.
sleep_summary_of(sleep_records) ==
    LET stages == detect_sleep_stages(sleep_records)
        total_minutes == Round1(span_minutes(sleep_records))
        total_stage_counts == Len(stages)
        pct_raw(stage) == IF total_stage_counts > 0
                          THEN Frac(stage_count(stages, stage), total_stage_counts)
                          ELSE Num(0)
    IN  [total_minutes |-> total_minutes,
         deep_minutes |-> Round1(Mul(total_minutes, pct_raw("Deep"))),
         rem_minutes |-> Round1(Mul(total_minutes, pct_raw("REM"))),
         light_minutes |-> Round1(Mul(total_minutes, pct_raw("Light")))]

\* main, lines 842-865: one date's stage minutes in the weekly trend.
weekly_entry(date, date_sleep) ==
    LET stages == detect_sleep_stages(date_sleep)
        total_minutes == span_minutes(date_sleep)
        total_stage_counts == Len(stages)
        scaled(stage) == IF total_stage_counts > 0 /\ Gt(total_minutes, Num(0))
                         THEN Mul(total_minutes,
                                  Frac(stage_count(stages, stage), total_stage_counts))
                         ELSE Num(0)
    IN  [date |-> date,
         total_minutes |-> total_minutes,
         deep_minutes |-> scaled("Deep"),
         rem_minutes |-> scaled("REM"),
         light_minutes |-> scaled("Light")]

\* main, lines 755-768: the component values of the latest night that the
\* Sleep Quality Components chart shows.
shown_components(row, b) ==
    LET rmssd == row.rmssd
        avg_hr == row.mean_hr
        baseline_rmssd == get(b, "hrv", rmssd)
        baseline_hr == get(b, "hr", avg_hr)
    IN  [rmssd_score |-> IF Gt(baseline_rmssd, Num(0))
                         THEN PyMin(Div(rmssd, baseline_rmssd), Frac(6, 5))
                         ELSE Frac(1, 2),
         hr_drop_score |-> IF Gt(baseline_hr, Num(0))
                           THEN Div(Sub(baseline_hr, avg_hr), baseline_hr)
                           ELSE Frac(1, 2),
         duration_score |-> PyMin(Div(row.duration_minutes, Num(420)), Num(1)),
         lfhf_penalty |-> IF Lt(row.lf_hf_ratio, Num(2)) THEN Num(1)
                          ELSE IF Lt(row.lf_hf_ratio, Num(4)) THEN Frac(4, 5)
                          ELSE Frac(1, 2)]

\* main, lines 827-875: the entries of the dates of the past week that have
\* Sleep records, oldest first.
RECURSIVE weekly_entries(_, _, _)
weekly_entries(frame, date, latest_sleep_date) ==
    IF date > latest_sleep_date THEN <<>>
    ELSE LET date_sleep == sleep_only(on_date(frame, date))
         IN  (IF date_sleep = <<>> THEN <<>> ELSE <<weekly_entry(date, date_sleep)>>)
             \o weekly_entries(frame, date + 1, latest_sleep_date)

(***************************************************************************)
(* calculate_stress_index (index_2.py).                                    *)
(***************************************************************************)
\* A mutated stress index that forgets the upper clamps.
StressIndexUnclamped(hr, baseline_rhr, hrv, baseline_hrv) ==
    IF \/ isna(hr) \/ isna(baseline_rhr) \/ isna(hrv) \/ isna(baseline_hrv)
       \/ baseline_rhr = Num(0) \/ baseline_hrv = Num(0)
    THEN NaN
    ELSE LET hr_ratio == Div(hr, baseline_rhr)
             hr_component == PyMax(Num(0), Mul(Sub(hr_ratio, Frac(4, 5)), Num(2)))
             hrv_ratio == Div(hrv, baseline_hrv)
             hrv_component == PyMax(Num(0), Mul(Sub(Num(1), hrv_ratio), Num(2)))
             stress_index == Add(hr_component, hrv_component)
         IN  Round1(PyMax(Num(0), stress_index))

\* A mutated stress index whose HRV component is not inverted.
StressIndexNotInverted(hr, baseline_rhr, hrv, baseline_hrv) ==
    IF \/ isna(hr) \/ isna(baseline_rhr) \/ isna(hrv) \/ isna(baseline_hrv)
       \/ baseline_rhr = Num(0) \/ baseline_hrv = Num(0)
    THEN NaN
    ELSE LET hr_ratio == Div(hr, baseline_rhr)
             hr_component ==
                 PyMin(Frac(3, 2), PyMax(Num(0), Mul(Sub(hr_ratio, Frac(4, 5)), Num(2))))
             hrv_ratio == Div(hrv, baseline_hrv)
             hrv_component ==
                 PyMin(Frac(3, 2), PyMax(Num(0), Mul(Sub(hrv_ratio, Num(1)), Num(2))))
             stress_index == Add(hr_component, hrv_component)
         IN  Round1(PyMin(Num(3), PyMax(Num(0), stress_index)))

\* A mutated stress index whose HRV component is not doubled.
StressIndexHrvNotDoubled(hr, baseline_rhr, hrv, baseline_hrv) ==
    IF \/ isna(hr) \/ isna(baseline_rhr) \/ isna(hrv) \/ isna(baseline_hrv)
       \/ baseline_rhr = Num(0) \/ baseline_hrv = Num(0)
    THEN NaN
    ELSE LET hr_ratio == Div(hr, baseline_rhr)
             hr_component ==
                 PyMin(Frac(3, 2), PyMax(Num(0), Mul(Sub(hr_ratio, Frac(4, 5)), Num(2))))
             hrv_ratio == Div(hrv, baseline_hrv)
             hrv_component ==
                 PyMin(Frac(3, 2), PyMax(Num(0), Sub(Num(1), hrv_ratio)))
             stress_index == Add(hr_component, hrv_component)
         IN  Round1(PyMin(Num(3), PyMax(Num(0), stress_index)))

calculate_stress_index(hr, baseline_rhr, hrv, baseline_hrv) ==
    IF \/ isna(hr) \/ isna(baseline_rhr) \/ isna(hrv) \/ isna(baseline_hrv)
       \/ baseline_rhr = Num(0) \/ baseline_hrv = Num(0)
    THEN NaN
    ELSE LET hr_ratio == Div(hr, baseline_rhr)
             hr_component ==
                 PyMin(Frac(3, 2), PyMax(Num(0), Mul(Sub(hr_ratio, Frac(4, 5)), Num(2))))
             hrv_ratio == Div(hrv, baseline_hrv)
             hrv_component ==
                 PyMin(Frac(3, 2), PyMax(Num(0), Mul(Sub(Num(1), hrv_ratio), Num(2))))
             stress_index == Add(hr_component, hrv_component)
         IN  Round1(PyMin(Num(3), PyMax(Num(0), stress_index)))

(***************************************************************************)
(* calculate_daily_metrics_with_dynamic_baselines (index_2.py): the        *)
(* values one pass of the date loop computes.                              *)
(***************************************************************************)
\* A mutated resting heart rate that is the minimum on every day.
DayRhrAlwaysMin(day_sleep) ==
    IF day_sleep # <<>> THEN min(Column(day_sleep, "heartRate")) ELSE NaN

\* lines 200-207: the day's resting heart rate.
day_rhr(day_sleep) ==
    IF day_sleep # <<>> /\ Len(day_sleep) >= 3
    THEN quantile(Column(day_sleep, "heartRate"), 1, 10)
    ELSE IF day_sleep # <<>> THEN min(Column(day_sleep, "heartRate"))
    ELSE NaN

\* cumulative.nsmallest(count, column)[column].median(): the median of the
\* count smallest non-missing values (nsmallest puts missing values last,
\* median skips them).
nsmallest_median(recs, count, column) ==
    LET v == sort_values(Column(recs, column))
    IN  median(SubSeq(v, 1, IF count < Len(v) THEN count ELSE Len(v)))

\* A mutated count that takes the lowest half.
LowestCountHalf(cum_sleep) ==
    IF Len(cum_sleep) \div 2 > 1 THEN Len(cum_sleep) \div 2 ELSE 1

\* max(1, int(len(cumulative_sleep) * 0.3))
lowest_count(cum_sleep) ==
    IF (3 * Len(cum_sleep)) \div 10 > 1 THEN (3 * Len(cum_sleep)) \div 10 ELSE 1

\* lines 200-257: the row of one date, from the day's records and the
\* cumulative sets that already hold them.
daily_row(date, day_sleep, day_non_sleep, cum_sleep, cum_non_sleep, day_number) ==
    LET rhr == day_rhr(day_sleep)
        avg_hr == IF day_non_sleep # <<>> THEN mean(Column(day_non_sleep, "heartRate"))
                  ELSE NaN
        hrv == IF day_sleep # <<>> THEN mean(Column(day_sleep, "rmssd")) ELSE NaN
        breathing_rate == IF day_sleep # <<>> THEN mean(Column(day_sleep, "breathingRate"))
                          ELSE NaN
        baseline_hrv == IF cum_sleep # <<>> /\ Len(cum_sleep) >= 3
                        THEN nsmallest_median(cum_sleep, lowest_count(cum_sleep), "rmssd")
                        ELSE hrv
        baseline_rhr == IF cum_sleep # <<>> /\ Len(cum_sleep) >= 3
                        THEN nsmallest_median(cum_sleep, lowest_count(cum_sleep), "heartRate")
                        ELSE rhr
        baseline_hr == IF cum_non_sleep # <<>>
                       THEN median(Column(cum_non_sleep, "heartRate")) ELSE avg_hr
        baseline_breathing_rate ==
            IF cum_sleep # <<>> THEN median(Column(cum_sleep, "breathingRate"))
            ELSE breathing_rate
    IN  [date |-> date, rhr |-> rhr, avg_hr |-> avg_hr, hrv |-> hrv,
         breathing_rate |-> breathing_rate,
         stress_index |-> calculate_stress_index(avg_hr, baseline_rhr, hrv, baseline_hrv),
         baseline_rhr |-> baseline_rhr, baseline_hr |-> baseline_hr,
         baseline_hrv |-> baseline_hrv,
         baseline_breathing_rate |-> baseline_breathing_rate,
         day_number |-> day_number]

\* A mutated date list that holds the dates of the Sleep records only.
SleepDatesOnly(frame) == sorted(unique(Column(sleep_only(frame), "date")))

\* A mutated date list that is left in order of first appearance.
UnsortedDates(frame) == unique(Column(frame, "date"))

\* line 182: unique_dates = sorted(df['date'].unique())
sorted_unique_dates(frame) == sorted(unique(Column(frame, "date")))

\* A mutated start of the loop that keeps the cumulative Sleep records of
\* the call before.
StaleCumulativeSleep == cumulative_sleep

\* A mutated start of the loop whose cumulative Sleep records already hold
\* the Sleep records of every date.
AllSleepRecords == sleep_only(df)

\* line 188: cumulative_sleep = pd.DataFrame()
initial_cumulative_sleep == <<>>

DailyColumns == {"date", "rhr", "avg_hr", "hrv", "breathing_rate", "stress_index",
                 "baseline_rhr", "baseline_hr", "baseline_hrv",
                 "baseline_breathing_rate", "day_number"}

(***************************************************************************)
(* index_1.main: the Analytics page, step by step.                         *)
(***************************************************************************)
\* The components before the chart is drawn.
NoComponents == [rmssd_score |-> NaN, hr_drop_score |-> NaN, duration_score |-> NaN,
                 lfhf_penalty |-> NaN]

NoSummary == [total_minutes |-> NaN, deep_minutes |-> NaN, rem_minutes |-> NaN,
              light_minutes |-> NaN]

\* Both pages return at once when the database holds no record.
MainNoData ==
    /\ pc = "start"
    /\ df = <<>>
    /\ pc' = "no_data"
    /\ UNCHANGED <<df, index1Vars, dynVars, stressVars, excludeVars>>

\* lines 385-390: the night metrics, or the "No sleep data found" return.
MainNightMetrics ==
    /\ pc \in {"start", "dyn_returned"}
    /\ df # <<>>
    /\ night_data' = calculate_night_metrics(df)
    /\ df' = night_metrics_argument(df)
    /\ pc' = IF empty(night_data') THEN "no_sleep_data" ELSE "baselines"
    /\ UNCHANGED <<baselines, daily_report, passed_sleep_records, sleep_with_stages,
                   quality_components, sleep_summary, weekly, dynVars, stressVars, excludeVars>>

\* line 393
MainBaselines ==
    /\ pc = "baselines"
    /\ baselines' = calculate_baselines(df, BaselineDays)
    /\ pc' = "score"
    /\ UNCHANGED <<df, night_data, daily_report, passed_sleep_records, sleep_with_stages,
                   quality_components, sleep_summary, weekly,
                   dynVars, stressVars, excludeVars>>

\* line 396
MainRecoveryScore ==
    /\ pc = "score"
    /\ night_data' = calculate_recovery_score(night_data, baselines)
    /\ pc' = "report"
    /\ UNCHANGED <<df, baselines, daily_report, passed_sleep_records, sleep_with_stages,
                   quality_components, sleep_summary, weekly,
                   dynVars, stressVars, excludeVars>>

\* lines 399-542: the daily report and the baseline summary, whose format
\* specification ":.2f" raises on the 'N/A' default of an absent key.
MainReport ==
    /\ pc = "report"
    /\ daily_report' = create_daily_report(night_data, baselines)
    /\ pc' = IF DOMAIN baselines = {} THEN "raised" ELSE "sleep_analysis"
    /\ UNCHANGED <<df, night_data, baselines, passed_sleep_records, sleep_with_stages,
                   quality_components, sleep_summary, weekly,
                   dynVars, stressVars, excludeVars>>

latest_sleep_date == MaxOf({night_data.rows[i].date : i \in 1..Len(night_data.rows)})

\* lines 666-768: the latest night's stages, stage minutes and sleep
\* quality components.
MainSleepAnalysis ==
    /\ pc = "sleep_analysis"
    /\ passed_sleep_records' = stages_argument(sleep_only(on_date(df, latest_sleep_date)))
    /\ sleep_with_stages' = with_stages(sleep_only(on_date(df, latest_sleep_date)))
    /\ quality_components' = shown_components(latest_day_of(night_data), baselines)
    /\ sleep_summary' = sleep_summary_of(sleep_only(on_date(df, latest_sleep_date)))
    /\ pc' = "weekly"
    /\ UNCHANGED <<df, night_data, baselines, daily_report, weekly, dynVars, stressVars, excludeVars>>

\* lines 819-875
MainWeeklyTrends ==
    /\ pc = "weekly"
    /\ weekly' = weekly_entries(df, latest_sleep_date - 6, latest_sleep_date)
    /\ pc' = "done"
    /\ UNCHANGED <<df, night_data, baselines, daily_report, passed_sleep_records, sleep_with_stages,
                   quality_components, sleep_summary, dynVars, stressVars, excludeVars>>

(***************************************************************************)
(* index_2.main: the Visualizations page calls the dynamic baselines; the  *)
(* page is run again on every interaction, on the same records.            *)
(***************************************************************************)
\* returned keeps what the last two calls returned.
remember(table) ==
    IF Len(returned) < 2 THEN Append(returned, table) ELSE <<returned[2], table>>

\* index_2.main line 519 and lines 171-189 of the call.
DynCall ==
    /\ pc \in {"start", "dyn_returned"}
    /\ df # <<>>
    /\ IF sleep_only(df) = <<>>
       THEN /\ returned' = remember(EmptyTable)
            /\ pc' = "dyn_returned"
            /\ UNCHANGED <<unique_dates, result_data, cumulative_sleep, cumulative_non_sleep>>
       ELSE /\ unique_dates' = sorted_unique_dates(df)
            /\ result_data' = <<>>
            /\ cumulative_sleep' = initial_cumulative_sleep
            /\ cumulative_non_sleep' = <<>>
            /\ pc' = "dyn_loop"
            /\ UNCHANGED returned
    /\ UNCHANGED <<df, index1Vars, stressVars, excludeVars>>

\* lines 191-257: one pass of the date loop.
DynStep ==
    /\ pc = "dyn_loop"
    /\ Len(result_data) < Len(unique_dates)
    /\ LET date == unique_dates[Len(result_data) + 1]
           day_sleep == on_date(sleep_only(df), date)
           day_non_sleep == on_date(not_sleep(df), date)
       IN  /\ cumulative_sleep' = cumulative_sleep \o day_sleep
           /\ cumulative_non_sleep' = cumulative_non_sleep \o day_non_sleep
           /\ result_data' = Append(result_data,
                                    daily_row(date, day_sleep, day_non_sleep,
                                              cumulative_sleep', cumulative_non_sleep',
                                              Len(result_data) + 1))
    /\ UNCHANGED <<pc, df, unique_dates, returned, index1Vars, stressVars, excludeVars>>

\* lines 259-262
DynReturn ==
    /\ pc = "dyn_loop"
    /\ Len(result_data) = Len(unique_dates)
    /\ returned' = remember([columns |-> DailyColumns, rows |-> result_data])
    /\ pc' = "dyn_returned"
    /\ UNCHANGED <<df, unique_dates, result_data, cumulative_sleep, cumulative_non_sleep,
                   index1Vars, stressVars, excludeVars>>

(***************************************************************************)
(* The dashboard on a record table drawn from RecordTables.                *)
(***************************************************************************)
NoStressCall == [hr |-> NaN, baseline_rhr |-> NaN, hrv |-> NaN, baseline_hrv |-> NaN]

Init ==
    /\ pc = "start"
    /\ df \in RecordTables
    /\ night_data = EmptyTable
    /\ baselines = EmptyMapping
    /\ daily_report = EmptyMapping
    /\ passed_sleep_records = <<>>
    /\ sleep_with_stages = <<>>
    /\ quality_components = NoComponents
    /\ sleep_summary = NoSummary
    /\ weekly = <<>>
    /\ unique_dates = <<>>
    /\ result_data = <<>>
    /\ cumulative_sleep = <<>>
    /\ cumulative_non_sleep = <<>>
    /\ returned = <<>>
    /\ stress_args = NoStressCall
    /\ stress_ret = NaN
    /\ ExcludeIdle

Next ==
    \/ MainNoData
    \/ MainNightMetrics
    \/ MainBaselines
    \/ MainRecoveryScore
    \/ MainReport
    \/ MainSleepAnalysis
    \/ MainWeeklyTrends
    \/ DynCall
    \/ DynStep
    \/ DynReturn

Spec == Init /\ [][Next]_vars

(***************************************************************************)
(* The score engine on its own: calculate_recovery_score applied to night  *)
(* tables and baseline mappings drawn from bounded sets.                   *)
(***************************************************************************)
MaxNights == 2

\* (mean_hr, rhr, duration_minutes, lf_hf_ratio) of the nights scored: a
\* good night, the same night three minutes short of seven hours, a
\* mediocre one, a degenerate one and one without metrics.  Each comes with
\* three rmssd values, and the degenerate one with rmssd 0 as well.
ScoreNightShapes == {<<Num(55), Num(50), Num(480), Frac(3, 2)>>,
                     <<Num(55), Num(50), Num(417), Frac(3, 2)>>,
                     <<Num(70), Num(60), Num(300), Num(3)>>,
                     <<Num(400), Num(0), Num(0), Num(5)>>,
                     <<NaN, Num(56), Num(200), NaN>>}

ScoreNightRows ==
    {[date |-> 0, mean_rr |-> Div(Num(60000), p[1][1]), sdnn |-> Num(50),
      rmssd |-> p[2], lf_hf_ratio |-> p[1][4], breathing_rate |-> Num(14),
      mean_hr |-> p[1][1], rhr |-> p[1][2], record_count |-> 3,
      duration_minutes |-> p[1][3], sleep_quality |-> NaN, recovery_score |-> NaN] :
        p \in {q \in ScoreNightShapes \X {NaN, Num(0), Num(30), Num(50)} :
                  q[2] = Num(0) => q[1][2] = Num(0)}}

ScoreNightTables ==
    {[columns |-> NightColumns,
      rows |-> [i \in DOMAIN f |-> [f[i] EXCEPT !.date = i]]] :
        f \in UNION {[1..n -> ScoreNightRows] : n \in 1..MaxNights}}
    \cup {EmptyTable}

\* A baseline mapping is empty or holds all six keys (calculate_baselines).
ScoreBaselines ==
    {[k \in {"hrv", "rhr", "sdnn", "breathing_rate", "hr", "lf_hf_ratio"} |->
         CASE k = "hrv" -> hrv
           [] k = "rhr" -> pair[1]
           [] k = "hr" -> pair[2]
           [] k = "sdnn" -> Num(50)
           [] k = "breathing_rate" -> Num(14)
           [] OTHER -> Num(2)] :
        hrv \in {NaN, Num(0), Num(40)},
        pair \in {<<Num(55), Num(65)>>, <<Num(-55), Num(0)>>}}
    \cup {EmptyMapping}

ScoreInit ==
    /\ pc = "score"
    /\ df = <<>>
    /\ night_data \in ScoreNightTables
    /\ baselines \in ScoreBaselines
    /\ daily_report = EmptyMapping
    /\ passed_sleep_records = <<>>
    /\ sleep_with_stages = <<>>
    /\ quality_components = NoComponents
    /\ sleep_summary = NoSummary
    /\ weekly = <<>>
    /\ unique_dates = <<>>
    /\ result_data = <<>>
    /\ cumulative_sleep = <<>>
    /\ cumulative_non_sleep = <<>>
    /\ returned = <<>>
    /\ stress_args = NoStressCall
    /\ stress_ret = NaN
    /\ ExcludeIdle

ScoreNext == MainRecoveryScore

SpecScore == ScoreInit /\ [][ScoreNext]_vars

(***************************************************************************)
(* The dynamic baselines on their own, on tables long enough for the       *)
(* lowest 30% of the cumulative Sleep records to be more than one record.  *)
(***************************************************************************)
DynRecs == 8

DynRecordSet == {On(1, SleepB), On(3, SleepA), On(3, DayF)}

DynInit ==
    /\ pc = "start"
    /\ df \in [1..DynRecs -> DynRecordSet]
    /\ night_data = EmptyTable
    /\ baselines = EmptyMapping
    /\ daily_report = EmptyMapping
    /\ passed_sleep_records = <<>>
    /\ sleep_with_stages = <<>>
    /\ quality_components = NoComponents
    /\ sleep_summary = NoSummary
    /\ weekly = <<>>
    /\ unique_dates = <<>>
    /\ result_data = <<>>
    /\ cumulative_sleep = <<>>
    /\ cumulative_non_sleep = <<>>
    /\ returned = <<>>
    /\ stress_args = NoStressCall
    /\ stress_ret = NaN
    /\ ExcludeIdle

DynNext ==
    \/ DynCall
    \/ DynStep
    \/ DynReturn

\* The same call on short tables that hold sessions whose tags are not a
\* list.
TagRecs == 3

TagRecordSet == {On(1, SleepA), On(1, DayG), On(3, SleepB), On(3, DayG), On(3, DayE)}

TagInit ==
    /\ pc = "start"
    /\ df \in UNION {[1..n -> TagRecordSet] : n \in 1..TagRecs}
    /\ night_data = EmptyTable
    /\ baselines = EmptyMapping
    /\ daily_report = EmptyMapping
    /\ passed_sleep_records = <<>>
    /\ sleep_with_stages = <<>>
    /\ quality_components = NoComponents
    /\ sleep_summary = NoSummary
    /\ weekly = <<>>
    /\ unique_dates = <<>>
    /\ result_data = <<>>
    /\ cumulative_sleep = <<>>
    /\ cumulative_non_sleep = <<>>
    /\ returned = <<>>
    /\ stress_args = NoStressCall
    /\ stress_ret = NaN
    /\ ExcludeIdle

SpecTags == TagInit /\ [][DynNext]_vars

SpecDyn == DynInit /\ [][DynNext]_vars

(***************************************************************************)
(* The stress index on its own.                                            *)
(***************************************************************************)
\* Arguments of the stress index: heart rates and HRV values, with zero,
\* negative and missing ones.
StressHrValues == {NaN, Num(-60), Num(0), Num(48), Num(60), Num(90), Num(150)}

StressHrvValues == {NaN, Num(-40), Num(0), Num(20), Num(40), Num(80)}

StressInit ==
    /\ pc = "stress_call"
    /\ df = <<>>
    /\ night_data = EmptyTable
    /\ baselines = EmptyMapping
    /\ daily_report = EmptyMapping
    /\ passed_sleep_records = <<>>
    /\ sleep_with_stages = <<>>
    /\ quality_components = NoComponents
    /\ sleep_summary = NoSummary
    /\ weekly = <<>>
    /\ unique_dates = <<>>
    /\ result_data = <<>>
    /\ cumulative_sleep = <<>>
    /\ cumulative_non_sleep = <<>>
    /\ returned = <<>>
    /\ stress_args \in [hr : StressHrValues, baseline_rhr : StressHrValues,
                        hrv : StressHrvValues, baseline_hrv : StressHrvValues]
    /\ stress_ret = NaN
    /\ ExcludeIdle

CallStressIndex ==
    /\ pc = "stress_call"
    /\ stress_ret' = calculate_stress_index(stress_args.hr, stress_args.baseline_rhr,
                                            stress_args.hrv, stress_args.baseline_hrv)
    /\ pc' = "stress_done"
    /\ UNCHANGED <<df, stress_args, index1Vars, dynVars, excludeVars>>

StressNext == CallStressIndex

SpecStress == StressInit /\ [][StressNext]_vars

(***************************************************************************)
(* exclude_records_by_session_id (delete_session.py).  A table is the set  *)
(* of its rows; a row of rr_intervals, hrv_metrics and session_tags is     *)
(* known by the session it belongs to.  Every statement sent over the      *)
(* connection may raise; the statements run inside "with conn.begin()",    *)
(* which commits when the block is left and rolls back when it raises.     *)
(***************************************************************************)
MaxSessions == 3

\* Two sessions of one recording, the others of a second recording.
RecordingOf(id) == IF id <= 2 THEN "rec-A" ELSE "rec-B"

\* The ids a call is given: two recordings and one that no session has.
RecordingIds == {"rec-A", "rec-B", "rec-C"}

\* The rows of the other tables refer to rows of hrv_sessions.
Databases ==
    {[hrv_sessions |-> {[id |-> i, recording_session_id |-> RecordingOf(i)] : i \in t[1]},
      rr_intervals |-> {[session_id |-> i] : i \in t[2]},
      hrv_metrics |-> {[session_id |-> i] : i \in t[3]},
      session_tags |-> {[session_id |-> i] : i \in t[4]}] :
        t \in {u \in [1..4 -> SUBSET (1..MaxSessions)] :
                  u[2] \subseteq u[1] /\ u[3] \subseteq u[1] /\ u[4] \subseteq u[1]}}

\* lines 114-120: SELECT id FROM hrv_sessions WHERE recording_session_id = ...
find_sessions(tables, recording_session_id) ==
    {row.id : row \in {r \in tables.hrv_sessions :
                          r.recording_session_id = recording_session_id}}

\* DELETE FROM <table> WHERE session_id IN :session_ids
delete_by_session(rows, ids) == {r \in rows : r.session_id \notin ids}

\* DELETE FROM hrv_sessions WHERE id IN :session_ids
delete_sessions(rows, ids) == {r \in rows : r.id \notin ids}

\* A mutated transaction that keeps what was deleted before the failure.
NoRollback(before, current) == current

\* line 112, "with conn.begin()": the tables after the block raised.
rolled_back(before, current) == before

\* lines 158-159: except Exception as e: return None, str(e)
ExcludeFails(message) ==
    /\ db' = rolled_back(db_before, db)
    /\ exclude_ret' = [count |-> -1, error |-> message]
    /\ pc' = "exclude_returned"
    /\ UNCHANGED <<db_before, session_ids>>

\* lines 105-112: the engine, the connection and the start of the
\* transaction.
ExcludeConnect ==
    /\ pc = "exclude_call"
    /\ \E connected \in BOOLEAN :
           IF connected
           THEN /\ db_before' = db
                /\ pc' = "exclude_find"
                /\ UNCHANGED <<db, session_ids, exclude_ret>>
           ELSE /\ exclude_ret' = [count |-> -1, error |-> "connection failed"]
                /\ pc' = "exclude_returned"
                /\ UNCHANGED <<db, db_before, session_ids>>
    /\ UNCHANGED <<df, exclude_arg, index1Vars, dynVars, stressVars>>

\* lines 114-123: the sessions of the recording; none is the early return.
ExcludeFind ==
    /\ pc = "exclude_find"
    /\ \E raised \in BOOLEAN :
           IF raised THEN ExcludeFails("select failed")
           ELSE /\ session_ids' = find_sessions(db, exclude_arg)
                /\ IF session_ids' = {}
                   THEN /\ exclude_ret' = [count |-> 0, error |-> "No records found"]
                        /\ pc' = "exclude_returned"
                   ELSE /\ pc' = "exclude_rr_intervals"
                        /\ UNCHANGED exclude_ret
                /\ UNCHANGED <<db, db_before>>
    /\ UNCHANGED <<df, exclude_arg, index1Vars, dynVars, stressVars>>

\* lines 125-131
ExcludeRrIntervals ==
    /\ pc = "exclude_rr_intervals"
    /\ \E raised \in BOOLEAN :
           IF raised THEN ExcludeFails("rr_intervals delete failed")
           ELSE /\ db' = [db EXCEPT !.rr_intervals = delete_by_session(@, session_ids)]
                /\ pc' = "exclude_hrv_metrics"
                /\ UNCHANGED <<db_before, session_ids, exclude_ret>>
    /\ UNCHANGED <<df, exclude_arg, index1Vars, dynVars, stressVars>>

\* lines 133-139
ExcludeHrvMetrics ==
    /\ pc = "exclude_hrv_metrics"
    /\ \E raised \in BOOLEAN :
           IF raised THEN ExcludeFails("hrv_metrics delete failed")
           ELSE /\ db' = [db EXCEPT !.hrv_metrics = delete_by_session(@, session_ids)]
                /\ pc' = "exclude_session_tags"
                /\ UNCHANGED <<db_before, session_ids, exclude_ret>>
    /\ UNCHANGED <<df, exclude_arg, index1Vars, dynVars, stressVars>>

\* lines 141-147
ExcludeSessionTags ==
    /\ pc = "exclude_session_tags"
    /\ \E raised \in BOOLEAN :
           IF raised THEN ExcludeFails("session_tags delete failed")
           ELSE /\ db' = [db EXCEPT !.session_tags = delete_by_session(@, session_ids)]
                /\ pc' = "exclude_hrv_sessions"
                /\ UNCHANGED <<db_before, session_ids, exclude_ret>>
    /\ UNCHANGED <<df, exclude_arg, index1Vars, dynVars, stressVars>>

\* lines 149-157: the last delete, the commit on leaving the block and the
\* return.
ExcludeHrvSessions ==
    /\ pc = "exclude_hrv_sessions"
    /\ \E raised \in BOOLEAN :
           IF raised THEN ExcludeFails("hrv_sessions delete or commit failed")
           ELSE /\ db' = [db EXCEPT !.hrv_sessions = delete_sessions(@, session_ids)]
                /\ exclude_ret' = [count |-> Cardinality(session_ids), error |-> "None"]
                /\ pc' = "exclude_returned"
                /\ UNCHANGED <<db_before, session_ids>>
    /\ UNCHANGED <<df, exclude_arg, index1Vars, dynVars, stressVars>>

ExcludeInit ==
    /\ pc = "exclude_call"
    /\ df = <<>>
    /\ night_data = EmptyTable
    /\ baselines = EmptyMapping
    /\ daily_report = EmptyMapping
    /\ passed_sleep_records = <<>>
    /\ sleep_with_stages = <<>>
    /\ quality_components = NoComponents
    /\ sleep_summary = NoSummary
    /\ weekly = <<>>
    /\ unique_dates = <<>>
    /\ result_data = <<>>
    /\ cumulative_sleep = <<>>
    /\ cumulative_non_sleep = <<>>
    /\ returned = <<>>
    /\ stress_args = NoStressCall
    /\ stress_ret = NaN
    /\ db \in Databases
    /\ db_before = db
    /\ session_ids = {}
    /\ exclude_arg \in RecordingIds
    /\ exclude_ret = NoExcludeCall

ExcludeNext ==
    \/ ExcludeConnect
    \/ ExcludeFind
    \/ ExcludeRrIntervals
    \/ ExcludeHrvMetrics
    \/ ExcludeSessionTags
    \/ ExcludeHrvSessions

SpecExclude == ExcludeInit /\ [][ExcludeNext]_vars

(***************************************************************************)
(* Claims.                                                                 *)
(***************************************************************************)
StressDefined == pc = "stress_done" /\ ~isna(stress_ret)

StressAt(hr, hrv) ==
    calculate_stress_index(hr, stress_args.baseline_rhr, hrv, stress_args.baseline_hrv)

\* C2: whenever calculate_stress_index returns a defined (non-NaN) value,
\* that value lies in [0, 3], for all inputs, negative ones included.
C2_StressInRange ==
    StressDefined => Le(Num(0), stress_ret) /\ Le(stress_ret, Num(3))

\* C2 witness: a call with a negative input returned the upper bound 3.
C2_Witness ==
    /\ StressDefined
    /\ Lt(stress_args.hrv, Num(0))
    /\ stress_ret = Num(3)

\* C3 as stated: the stress index is non-decreasing in hr and non-increasing
\* in hrv for every choice of the fixed inputs for which it is defined.
C3_MonotoneEverywhere ==
    StressDefined =>
        /\ \A hr2 \in StressHrValues \ {NaN} :
               Ge(hr2, stress_args.hr) => Ge(StressAt(hr2, stress_args.hrv), stress_ret)
        /\ \A hrv2 \in StressHrvValues \ {NaN} :
               Ge(hrv2, stress_args.hrv) => Le(StressAt(stress_args.hr, hrv2), stress_ret)

\* C3 amended: the stress index is non-decreasing in hr whenever
\* baseline_rhr > 0 and non-increasing in hrv whenever baseline_hrv > 0
\* (the other inputs held fixed, the result defined).
C3_MonotonePositiveBaselines ==
    StressDefined =>
        /\ Gt(stress_args.baseline_rhr, Num(0)) =>
               \A hr2 \in StressHrValues \ {NaN} :
                   Ge(hr2, stress_args.hr) =>
                       Ge(StressAt(hr2, stress_args.hrv), stress_ret)
        /\ Gt(stress_args.baseline_hrv, Num(0)) =>
               \A hrv2 \in StressHrvValues \ {NaN} :
                   Ge(hrv2, stress_args.hrv) =>
                       Le(StressAt(stress_args.hr, hrv2), stress_ret)

\* C3 witness: with positive baselines, a larger hr gives a strictly larger
\* index and a larger hrv a strictly smaller one.
C3_Witness ==
    /\ StressDefined
    /\ Gt(stress_args.baseline_rhr, Num(0))
    /\ Gt(stress_args.baseline_hrv, Num(0))
    /\ \E hr2 \in StressHrValues \ {NaN} :
           Gt(hr2, stress_args.hr) /\ Gt(StressAt(hr2, stress_args.hrv), stress_ret)
    /\ \E hrv2 \in StressHrvValues \ {NaN} :
           Gt(hrv2, stress_args.hrv) /\ Lt(StressAt(stress_args.hr, hrv2), stress_ret)

Scored == pc = "report" /\ "sleep_quality" \in night_data.columns

InRange100(x) == Le(Num(0), x) /\ Le(x, Num(100))

\* C1: for every night row that calculate_recovery_score scores (non-empty
\* night data, non-empty baseline mapping), the stored sleep_quality and the
\* stored recovery_score each lie in [0, 100], whatever the night's metric
\* values and the baseline values are.
C1_ScoresInRange ==
    (pc = "report" /\ ~empty(night_data) /\ DOMAIN baselines # {}) =>
        /\ {"sleep_quality", "recovery_score"} \subseteq night_data.columns
        /\ \A i \in 1..Len(night_data.rows) :
               /\ InRange100(night_data.rows[i].sleep_quality)
               /\ InRange100(night_data.rows[i].recovery_score)

\* C1 witness: a scored night whose uncapped sleep quality is below 0 and
\* one whose uncapped sleep quality is undefined (a missing mean_hr).
C1_Witness ==
    /\ Scored
    /\ \E i \in 1..Len(night_data.rows) :
           /\ Lt(SleepQualityUncapped(night_data.rows[i], baselines), Num(0))
           /\ night_data.rows[i].sleep_quality = Num(0)
    /\ \E i \in 1..Len(night_data.rows) :
           /\ isna(SleepQualityUncapped(night_data.rows[i], baselines))
           /\ night_data.rows[i].sleep_quality = Num(100)

\* The states of index_1.main after calculate_night_metrics returned.
AfterNightMetrics ==
    pc \in {"no_sleep_data", "baselines", "score", "report", "raised",
            "sleep_analysis", "weekly", "done"}

\* The Sleep records of a date, and the heart rates among them, ascending.
SleepOn(date) == {i \in 1..Len(df) : df[i].date = date /\ "Sleep" \in df[i].tags}

SleepHeartRates(date) == sort_values([i \in 1..Len(df) |->
                             IF i \in SleepOn(date) THEN df[i].heartRate ELSE NaN])

\* The resting heart rate the claim gives a date: the least heart rate for
\* fewer than 3 Sleep records, the linearly interpolated 10th percentile
\* v1 + (v2 - v1) * (n - 1) / 10 of the n ascending heart rates for 3 to 10.
ClaimedRhr(date, rhr) ==
    LET v == SleepHeartRates(date)
        n == Cardinality(SleepOn(date))
    IN  /\ n < 3 => /\ \E i \in 1..Len(v) : rhr = v[i]
                    /\ \A i \in 1..Len(v) : Le(rhr, v[i])
        /\ (n >= 3 /\ n <= 10) =>
               rhr = Add(v[1], Mul(Sub(v[2], v[1]), Frac(n - 1, 10)))

\* C4: for every date's group of Sleep records, rhr is min(heart_rate) when
\* the group has fewer than 3 records and the 10th percentile of heart_rate
\* (linear interpolation) when it has 3 or more, in the rows of
\* calculate_night_metrics and in the rows of the dynamic baselines alike.
C4_RestingHeartRate ==
    /\ AfterNightMetrics =>
           \A i \in 1..Len(night_data.rows) :
               ClaimedRhr(night_data.rows[i].date, night_data.rows[i].rhr)
    /\ \A i \in 1..Len(result_data) :
           SleepOn(result_data[i].date) # {} =>
               ClaimedRhr(result_data[i].date, result_data[i].rhr)

\* C4 witness: both tables hold a night of 3 or more Sleep records whose
\* rhr is interpolated strictly above the least heart rate.
C4_Witness ==
    /\ AfterNightMetrics
    /\ \E i \in 1..Len(night_data.rows), j \in 1..Len(result_data) :
           /\ night_data.rows[i].record_count >= 3
           /\ Gt(night_data.rows[i].rhr, SleepHeartRates(night_data.rows[i].date)[1])
           /\ result_data[j].date = night_data.rows[i].date
           /\ result_data[j].rhr = night_data.rows[i].rhr

\* C5 as stated: in the row emitted for the first date, each dynamic
\* baseline equals that date's own raw metric, for any number of records.
C5_FirstDayBaselineIsOwnValue ==
    Len(result_data) >= 1 =>
        /\ result_data[1].baseline_hrv = result_data[1].hrv
        /\ result_data[1].baseline_rhr = result_data[1].rhr
        /\ result_data[1].baseline_hr = result_data[1].avg_hr
        /\ result_data[1].baseline_breathing_rate = result_data[1].breathing_rate

DatesOf(frame) == {frame[i].date : i \in 1..Len(frame)}

AscendingByOne(rows) ==
    \A i \in 1..Len(rows) :
        /\ rows[i].day_number = i
        /\ i > 1 => rows[i - 1].date < rows[i].date

\* C6: the dynamic baselines emit their rows in strictly ascending date
\* order, day_number 1, 2, 3, ... rising by exactly 1 per unique date,
\* whatever the order of the input records and the gaps between dates.
C6_AscendingDayNumbers ==
    /\ AscendingByOne(result_data)
    /\ \A c \in 1..Len(returned) :
           returned[c] # EmptyTable =>
               /\ AscendingByOne(returned[c].rows)
               /\ DatesOf(returned[c].rows) = DatesOf(df)
               /\ Len(returned[c].rows) = Cardinality(DatesOf(df))

\* C6 witness: a call returned three rows for records that arrive out of
\* date order, with gaps between their dates.
C6_Witness ==
    /\ Len(returned) >= 1
    /\ Len(returned[1].rows) = 3
    /\ Len(df) = 3
    /\ df[1].date > df[2].date
    /\ df[3].date > df[2].date + 1

\* C7 as stated: the Deep, REM and Light stage minutes of a night sum to at
\* most the night's total minutes, in the latest-night summary (each rounded
\* to one decimal) and in the weekly trend.
C7_StageMinutesWithinTotal ==
    /\ pc \in {"weekly", "done"} =>
           Le(Add(Add(sleep_summary.deep_minutes, sleep_summary.rem_minutes),
                  sleep_summary.light_minutes),
              sleep_summary.total_minutes)
    /\ \A i \in 1..Len(weekly) :
           Le(Add(Add(weekly[i].deep_minutes, weekly[i].rem_minutes),
                  weekly[i].light_minutes),
              weekly[i].total_minutes)

\* C8 as stated: with an empty baseline mapping and non-empty night data,
\* calculate_recovery_score still produces every night's sleep_quality and
\* recovery_score.
C8_ScoredWithoutBaselines ==
    (pc \in {"report", "raised"} /\ DOMAIN baselines = {} /\ ~empty(night_data)) =>
        /\ {"sleep_quality", "recovery_score"} \subseteq night_data.columns
        /\ \A i \in 1..Len(night_data.rows) :
               /\ ~isna(night_data.rows[i].sleep_quality)
               /\ ~isna(night_data.rows[i].recovery_score)

C10_OneRowPerSleepDate ==
    AfterNightMetrics =>
        LET sleep_dates == {d \in DatesOf(df) : SleepOn(d) # {}}
        IN  /\ DatesOf(night_data.rows) = sleep_dates
            /\ Len(night_data.rows) = Cardinality(sleep_dates)
            /\ sleep_dates = {} => night_data = EmptyTable
            /\ (pc = "no_sleep_data") = (sleep_dates = {})

\* C10 witness: rows for two dates while a third date has records but no
\* Sleep-tagged one.
C10_Witness ==
    /\ pc = "baselines"
    /\ Len(night_data.rows) = 2
    /\ \E d \in DatesOf(df) : SleepOn(d) = {}

\* C10 second witness state: records exist, none is Sleep-tagged, and main
\* stopped.
C10_StoppedWithoutSleepData ==
    pc = "no_sleep_data" /\ df # <<>> /\ night_data = EmptyTable

\* clamp(lo, hi, x) of a defined x.
Clamp(lo, hi, x) == IF Lt(x, lo) THEN lo ELSE IF Gt(x, hi) THEN hi ELSE x

\* 100 * (0.4 a + 0.3 b + 0.2 c + 0.1 d)
SleepQualitySum(a, b, c, d) ==
    Mul(Num(100), Add(Add(Mul(Frac(2, 5), a), Mul(Frac(3, 10), b)),
                      Add(Mul(Frac(1, 5), c), Mul(Frac(1, 10), d))))

\* 100 * (0.5 a + 0.3 b + 0.2 q / 100)
RecoverySum(a, b, q) ==
    Mul(Num(100), Add(Add(Mul(Frac(1, 2), a), Mul(Frac(3, 10), b)),
                      Mul(Frac(1, 5), Div(q, Num(100)))))

StatedLfhfPenalty(row) ==
    IF Lt(row.lf_hf_ratio, Num(2)) THEN Num(1)
    ELSE IF Lt(row.lf_hf_ratio, Num(4)) THEN Frac(4, 5) ELSE Frac(1, 2)

StatedDurationScore(row) == PyMin(Div(row.duration_minutes, Num(420)), Num(1))

\* The components as C11 states them: plain ratios, without a fallback.
StatedSleepQuality(row) ==
    Clamp(Num(0), Num(100),
          SleepQualitySum(PyMin(Div(row.rmssd, baselines["hrv"]), Num(1)),
                          Div(Sub(baselines["hr"], row.mean_hr), baselines["hr"]),
                          StatedDurationScore(row), StatedLfhfPenalty(row)))

StatedRecovery(row) ==
    Clamp(Num(0), Num(100),
          RecoverySum(PyMin(Div(row.rmssd, baselines["hrv"]), Num(1)),
                      PyMin(Div(baselines["rhr"], row.rhr), Num(1)),
                      StatedSleepQuality(row)))

\* The components with their fallbacks: 0.5 unless both the value and its
\* baseline are > 0, and 0 unless baseline_hr > 0.
FallbackRmssdScore(row) ==
    IF Gt(baselines["hrv"], Num(0)) /\ Gt(row.rmssd, Num(0))
    THEN PyMin(Div(row.rmssd, baselines["hrv"]), Num(1)) ELSE Frac(1, 2)

FallbackRhrScore(row) ==
    IF Gt(baselines["rhr"], Num(0)) /\ Gt(row.rhr, Num(0))
    THEN PyMin(Div(baselines["rhr"], row.rhr), Num(1)) ELSE Frac(1, 2)

FallbackHrDropScore(row) ==
    IF Gt(baselines["hr"], Num(0))
    THEN Div(Sub(baselines["hr"], row.mean_hr), baselines["hr"]) ELSE Num(0)

FallbackSleepQuality(row) ==
    Clamp(Num(0), Num(100),
          SleepQualitySum(FallbackRmssdScore(row), FallbackHrDropScore(row),
                          StatedDurationScore(row), StatedLfhfPenalty(row)))

FallbackRecovery(row) ==
    Clamp(Num(0), Num(100),
          RecoverySum(FallbackRmssdScore(row), FallbackRhrScore(row),
                      FallbackSleepQuality(row)))

SameRmssdAndRhrScore(i, j) ==
    /\ hrv_score(night_data.rows[i], baselines) = hrv_score(night_data.rows[j], baselines)
    /\ rhr_score(night_data.rows[i], baselines) = rhr_score(night_data.rows[j], baselines)

\* C12 as stated: two scored nights with equal rmssd_score and equal
\* rhr_score but different stored sleep_quality have different stored
\* recovery_score values.
C12_StoredRecoveryDiffers ==
    Scored =>
        \A i, j \in 1..Len(night_data.rows) :
            (/\ SameRmssdAndRhrScore(i, j)
             /\ night_data.rows[i].sleep_quality # night_data.rows[j].sleep_quality)
                => night_data.rows[i].recovery_score # night_data.rows[j].recovery_score

\* C12 amended: of two scored nights with equal rmssd_score and equal
\* rhr_score, the one with the larger stored sleep_quality has the strictly
\* larger recovery score before rounding and a stored recovery_score that is
\* not smaller.
C12_RecoveryFollowsSleepQuality ==
    Scored =>
        \A i, j \in 1..Len(night_data.rows) :
            (/\ SameRmssdAndRhrScore(i, j)
             /\ Lt(night_data.rows[i].sleep_quality, night_data.rows[j].sleep_quality))
                => /\ Lt(recovery_score(night_data.rows[i], baselines),
                         recovery_score(night_data.rows[j], baselines))
                   /\ Le(night_data.rows[i].recovery_score,
                         night_data.rows[j].recovery_score)

\* C12 witness: two such nights, the one with the larger stored
\* sleep_quality storing the strictly larger recovery_score.
C12_Witness ==
    /\ Scored
    /\ \E i, j \in 1..Len(night_data.rows) :
           /\ SameRmssdAndRhrScore(i, j)
           /\ Lt(night_data.rows[i].sleep_quality, night_data.rows[j].sleep_quality)
           /\ Lt(night_data.rows[i].recovery_score, night_data.rows[j].recovery_score)

\* The inputs for which C13 says the stress index is undefined.
StressUndefinedInputs ==
    \/ isna(stress_args.hr) \/ isna(stress_args.baseline_rhr)
    \/ isna(stress_args.hrv) \/ isna(stress_args.baseline_hrv)
    \/ stress_args.baseline_rhr = Num(0)
    \/ stress_args.baseline_hrv = Num(0)

StatedHrComponent ==
    Clamp(Num(0), Frac(3, 2),
          Mul(Sub(Div(stress_args.hr, stress_args.baseline_rhr), Frac(4, 5)), Num(2)))

StatedHrvComponent ==
    Clamp(Num(0), Frac(3, 2),
          Mul(Sub(Num(1), Div(stress_args.hrv, stress_args.baseline_hrv)), Num(2)))

\* C13: calculate_stress_index returns NaN exactly when one of its four
\* inputs is missing or baseline_rhr = 0 or baseline_hrv = 0; otherwise it
\* returns clamp(0, 3, hr_component + hrv_component) rounded to one decimal,
\* hr_component = clamp(0, 1.5, (hr / baseline_rhr - 0.8) * 2) and
\* hrv_component = clamp(0, 1.5, (1 - hrv / baseline_hrv) * 2).
C13_StressFormula ==
    pc = "stress_done" =>
        /\ isna(stress_ret) <=> StressUndefinedInputs
        /\ ~StressUndefinedInputs =>
               stress_ret = Round1(Clamp(Num(0), Num(3),
                                         Add(StatedHrComponent, StatedHrvComponent)))

\* C13 witness: a call whose two components lie strictly inside (0, 1.5)
\* returned their sum.
C13_Witness ==
    /\ pc = "stress_done"
    /\ Gt(StatedHrComponent, Num(0)) /\ Lt(StatedHrComponent, Frac(3, 2))
    /\ Gt(StatedHrvComponent, Num(0)) /\ Lt(StatedHrvComponent, Frac(3, 2))
    /\ stress_ret = Add(StatedHrComponent, StatedHrvComponent)

\* C13 second witness state: a zero baseline with every input present
\* returned NaN.
C13_ZeroBaselineUndefined ==
    /\ pc = "stress_done"
    /\ stress_args.baseline_hrv = Num(0)
    /\ ~isna(stress_args.hr) /\ ~isna(stress_args.hrv) /\ ~isna(stress_args.baseline_rhr)
    /\ isna(stress_ret)

\* The records detect_sleep_stages is given for the latest night: the Sleep
\* records of the latest date that has any, in the order of df.
LatestNightRecords ==
    LET sleep_dates == {df[i].date : i \in {j \in 1..Len(df) : "Sleep" \in df[j].tags}}
        latest == CHOOSE d \in sleep_dates : \A e \in sleep_dates : e <= d
    IN  SelectSeq(df, LAMBDA r : r.date = latest /\ "Sleep" \in r.tags)

\* The label C14 gives a record against the percentiles of its night.
StatedStage(rec, night) ==
    LET hr_p20 == quantile(Column(night, "heartRate"), 1, 5)
        rmssd_p30 == quantile(Column(night, "rmssd"), 3, 10)
        rmssd_p80 == quantile(Column(night, "rmssd"), 4, 5)
        mean_hr == mean(Column(night, "heartRate"))
    IN  CASE isna(rec.heartRate) \/ isna(rec.rmssd) \/ isna(rec.lfHfRatio) -> "Unknown"
          [] OTHER ->
             IF /\ Le(rec.heartRate, hr_p20) /\ Ge(rec.rmssd, rmssd_p80)
                /\ Lt(rec.lfHfRatio, Num(1))
             THEN "Deep"
             ELSE IF /\ Gt(rec.heartRate, mean_hr) /\ Le(rec.rmssd, rmssd_p30)
                     /\ Gt(rec.lfHfRatio, Num(2))
             THEN "REM"
             ELSE "Light"

StagesOf(staged) == {staged[i].sleep_stage : i \in 1..Len(staged)}

\* C14: detect_sleep_stages returns the records it was given, as many and in
\* the same order, each with exactly one label: Unknown if heart rate, RMSSD
\* or LF/HF is missing; else Deep if HR <= HR-p20, RMSSD >= RMSSD-p80 and
\* LF/HF < 1; else REM if HR > mean HR, RMSSD <= RMSSD-p30 and LF/HF > 2;
\* else Light, against the percentiles of that night.
C14_OneLabelPerRecord ==
    pc \in {"weekly", "done"} =>
        /\ Len(sleep_with_stages) = Len(LatestNightRecords)
        /\ \A i \in 1..Len(sleep_with_stages) :
               /\ \A k \in DOMAIN LatestNightRecords[i] :
                      sleep_with_stages[i][k] = LatestNightRecords[i][k]
               /\ sleep_with_stages[i].sleep_stage
                      = StatedStage(LatestNightRecords[i], LatestNightRecords)

\* C14 witness: a staged night that holds a Deep, a REM and an Unknown
\* record.
C14_Witness ==
    /\ pc = "weekly"
    /\ {"Deep", "REM", "Unknown"} \subseteq StagesOf(sleep_with_stages)

\* C14 second witness state: a staged night that holds a Light record next
\* to a Deep one.
C14_LightReached ==
    /\ pc = "weekly"
    /\ {"Deep", "Light"} \subseteq StagesOf(sleep_with_stages)

\* The states of index_1.main after calculate_baselines returned.
AfterBaselines ==
    pc \in {"score", "report", "raised", "sleep_analysis", "weekly", "done"}

\* The records of the trailing window: those dated on or after the latest
\* date among all records minus BaselineDays; and the Sleep-tagged ones.
Window ==
    LET latest == CHOOSE d \in DatesOf(df) : \A e \in DatesOf(df) : e <= d
    IN  SelectSeq(df, LAMBDA r : r.date >= latest - BaselineDays)

WindowSleep == SelectSeq(Window, LAMBDA r : "Sleep" \in r.tags)

C16_EmptyWithoutWindowSleep ==
    (AfterBaselines /\ WindowSleep = <<>>) => baselines = EmptyMapping

\* C16 witness: calculate_baselines returned the empty mapping for a table
\* whose window holds a non-Sleep record while a Sleep record lies before
\* the window.
C16_Witness ==
    /\ pc = "score"
    /\ baselines = EmptyMapping
    /\ Window # <<>>
    /\ WindowSleep = <<>>
    /\ \E i \in 1..Len(df) : "Sleep" \in df[i].tags

\* The records dated on or before a date, Sleep-tagged or not.
UpTo(date) == SelectSeq(df, LAMBDA r : r.date <= date)

\* The row of a date computed from the records dated on or before it alone.
RowFromRecordsUpTo(date, day_number) ==
    daily_row(date,
              SelectSeq(df, LAMBDA r : r.date = date /\ "Sleep" \in r.tags),
              SelectSeq(df, LAMBDA r : r.date = date /\ "Sleep" \notin r.tags),
              SelectSeq(UpTo(date), LAMBDA r : "Sleep" \in r.tags),
              SelectSeq(UpTo(date), LAMBDA r : "Sleep" \notin r.tags),
              day_number)

MedianOfSorted(v) ==
    IF v = <<>> THEN NaN
    ELSE IF Len(v) % 2 = 1 THEN v[(Len(v) + 1) \div 2]
    ELSE Div(Add(v[Len(v) \div 2], v[Len(v) \div 2 + 1]), Num(2))

\* The median of the lowest 30% of a column of n records: of its
\* max(1, floor(0.3 n)) lowest values.
MedianOfLowest30(recs, column) ==
    LET v == sort_values(Column(recs, column))
        share == (3 * Len(recs)) \div 10
        count == IF share < 1 THEN 1 ELSE share
    IN  MedianOfSorted(SubSeq(v, 1, IF count < Len(v) THEN count ELSE Len(v)))

CumulativeSleepUpTo(date) == SelectSeq(UpTo(date), LAMBDA r : "Sleep" \in r.tags)

CumulativeNonSleepUpTo(date) == SelectSeq(UpTo(date), LAMBDA r : "Sleep" \notin r.tags)

\* C18: at each date, with at least 3 cumulative Sleep records baseline_hrv
\* is the median of the lowest 30% of the cumulative rmssd values and
\* baseline_rhr the median of the lowest 30% of the cumulative heart rates;
\* with fewer than 3, they are the day's own hrv and rhr.  baseline_hr is
\* the median of all cumulative non-Sleep heart rates and
\* baseline_breathing_rate the median of all cumulative Sleep breathing
\* rates.
C18_DynamicBaselineValues ==
    \A i \in 1..Len(result_data) :
        LET row == result_data[i]
            cum_sleep == CumulativeSleepUpTo(row.date)
            cum_non_sleep == CumulativeNonSleepUpTo(row.date)
        IN  /\ Len(cum_sleep) >= 3 =>
                   /\ row.baseline_hrv = MedianOfLowest30(cum_sleep, "rmssd")
                   /\ row.baseline_rhr = MedianOfLowest30(cum_sleep, "heartRate")
            /\ Len(cum_sleep) < 3 =>
                   /\ row.baseline_hrv = row.hrv
                   /\ row.baseline_rhr = row.rhr
            /\ cum_non_sleep # <<>> =>
                   row.baseline_hr
                       = MedianOfSorted(sort_values(Column(cum_non_sleep, "heartRate")))
            /\ cum_sleep # <<>> =>
                   row.baseline_breathing_rate
                       = MedianOfSorted(sort_values(Column(cum_sleep, "breathingRate")))

\* C18 witness: a first date with fewer than 3 Sleep records, then a date
\* whose lowest 30% are two records with different rmssd values, so that
\* baseline_hrv is the mean of the two.
C18_Witness ==
    /\ Len(result_data) = 2
    /\ Len(CumulativeSleepUpTo(result_data[1].date)) \in 1..2
    /\ Len(cumulative_sleep) >= 7
    /\ \A j \in 1..Len(cumulative_sleep) :
           result_data[2].baseline_hrv # cumulative_sleep[j].rmssd
    /\ cumulative_non_sleep # <<>>
    /\ result_data[2].baseline_hr = Num(90)

\* The states of index_1.main after create_daily_report returned.
AfterReport == pc \in {"raised", "sleep_analysis", "weekly", "done"}

\* A score of the latest night is missing when its column is absent or its
\* value undefined.
ScoreMissing(name) ==
    name \notin night_data.columns \/ isna(latest_day_of(night_data)[name])

\* C19 as stated: the daily report of the latest night shows every missing
\* night value (mean_hr, rmssd, rhr, breathing_rate, recovery_score,
\* sleep_quality) and every baseline whose key is absent from the mapping
\* as not available (here: not a number), never as 0 or another number.
C19_MissingShownAsNotAvailable ==
    AfterReport =>
        LET latest == latest_day_of(night_data)
        IN  /\ isna(latest.mean_hr) => isna(daily_report.hr_value)
            /\ isna(latest.rmssd) => isna(daily_report.hrv_rmssd)
            /\ isna(latest.rhr) => isna(daily_report.rhr_value)
            /\ isna(latest.breathing_rate) => isna(daily_report.breathing_rate_value)
            /\ ScoreMissing("recovery_score") => isna(daily_report.recovery_score)
            /\ ScoreMissing("sleep_quality") => isna(daily_report.sleep_quality)
            /\ "hr" \notin DOMAIN baselines => isna(daily_report.hr_baseline)
            /\ "hrv" \notin DOMAIN baselines => isna(daily_report.hrv_baseline)
            /\ "rhr" \notin DOMAIN baselines => isna(daily_report.rhr_baseline)
            /\ "breathing_rate" \notin DOMAIN baselines =>
                   isna(daily_report.breathing_rate_baseline)

\* ---------------------------------------------------------------------------
\* C20: calculate_baselines, calculate_daily_metrics_with_dynamic_baselines,
\* calculate_night_metrics and detect_sleep_stages leave the record table
\* passed to them unchanged: no step of either pipeline changes df, and after
\* detect_sleep_stages the latest night's records passed to it are the same
\* records with the same columns and values, without a sleep_stage column.
\* ---------------------------------------------------------------------------
AfterSleepAnalysis == pc \in {"weekly", "done"}

DegenerateHrv(row) == Le(baselines["hrv"], Num(0)) \/ Le(row.rmssd, Num(0))

DegenerateRhr(row) == Le(baselines["rhr"], Num(0)) \/ Le(row.rhr, Num(0))

DegenerateHr == Le(baselines["hr"], Num(0))

NeutralSleepQuality(row) ==
    Clamp(Num(0), Num(100),
          SleepQualitySum(Frac(1, 2), Num(0), StatedDurationScore(row),
                          StatedLfhfPenalty(row)))

C21_DegenerateDenominators ==
    Scored =>
        \A i \in 1..Len(night_data.rows) :
            LET row == night_data.rows[i]
            IN  /\ DegenerateHrv(row) => hrv_score(row, baselines) = Frac(1, 2)
                /\ DegenerateRhr(row) => rhr_score(row, baselines) = Frac(1, 2)
                /\ DegenerateHr => hr_drop_score(row, baselines) = Num(0)
                /\ \A d \in evaluated_divisors(row, baselines) : Gt(d, Num(0))
                /\ (DegenerateHrv(row) /\ DegenerateRhr(row) /\ DegenerateHr) =>
                       /\ row.sleep_quality = Round1(NeutralSleepQuality(row))
                       /\ row.recovery_score
                              = Round1(Clamp(Num(0), Num(100),
                                             RecoverySum(Frac(1, 2), Frac(1, 2),
                                                         NeutralSleepQuality(row))))

\* A scored night with rmssd 0 and rhr 0 under baselines hrv 0, rhr < 0 and
\* hr 0 (recovery 45), next to a night where all three divisions are made.
C21_Witness ==
    /\ Scored
    /\ baselines["hrv"] = Num(0) /\ Lt(baselines["rhr"], Num(0)) /\ baselines["hr"] = Num(0)
    /\ \E i \in 1..Len(night_data.rows) :
           /\ night_data.rows[i].rmssd = Num(0)
           /\ night_data.rows[i].rhr = Num(0)
           /\ night_data.rows[i].recovery_score = Num(45)
    /\ \E i \in 1..Len(night_data.rows) :
           /\ Gt(night_data.rows[i].rmssd, Num(0))
           /\ Gt(night_data.rows[i].rhr, Num(0))

\* ---------------------------------------------------------------------------
\* C22 as stated: calculate_recovery_score scores every night whose inputs
\* are present, and for a night with a missing (NaN) mean_hr, rmssd, rhr or
\* lf_hf_ratio it stores each score that depends on the missing input as
\* absent (NaN), not as a number.
\* ---------------------------------------------------------------------------
SleepQualityInputMissing(row) ==
    isna(row.mean_hr) \/ isna(row.rmssd) \/ isna(row.lf_hf_ratio)

RecoveryInputMissing(row) == SleepQualityInputMissing(row) \/ isna(row.rhr)

C22_MissingInputStoredAsAbsent ==
    Scored =>
        \A i \in 1..Len(night_data.rows) :
            LET row == night_data.rows[i]
            IN  /\ ~RecoveryInputMissing(row) =>
                       ~isna(row.sleep_quality) /\ ~isna(row.recovery_score)
                /\ SleepQualityInputMissing(row) => isna(row.sleep_quality)
                /\ RecoveryInputMissing(row) => isna(row.recovery_score)

\* ---------------------------------------------------------------------------
\* C23 as stated: for each of Deep, REM and Light, the stage minutes of a
\* night are its total minutes times the share of its records that carry
\* the label, Unknown records counted in the denominator only; a night of
\* total duration 0 gets 0 minutes for every stage.  Stated for the
\* latest-night summary and for every entry of the weekly trend.
\* ---------------------------------------------------------------------------
StatedStageMinutes(night, stage) ==
    Mul(span_minutes(night),
        Frac(stage_count(detect_sleep_stages(night), stage), Len(night)))

NightOf(date) == sleep_only(on_date(df, date))

C23_StageMinutesProportional ==
    /\ AfterSleepAnalysis =>
           /\ sleep_summary.deep_minutes = StatedStageMinutes(LatestNightRecords, "Deep")
           /\ sleep_summary.rem_minutes = StatedStageMinutes(LatestNightRecords, "REM")
           /\ sleep_summary.light_minutes = StatedStageMinutes(LatestNightRecords, "Light")
    /\ \A i \in 1..Len(weekly) :
           /\ weekly[i].deep_minutes = StatedStageMinutes(NightOf(weekly[i].date), "Deep")
           /\ weekly[i].rem_minutes = StatedStageMinutes(NightOf(weekly[i].date), "REM")
           /\ weekly[i].light_minutes = StatedStageMinutes(NightOf(weekly[i].date), "Light")

\* ---------------------------------------------------------------------------
\* C24: no record of a labelled night satisfies both the Deep test and the
\* REM test of detect_sleep_stages against the night's percentiles, so the
\* label each record got (Deep tested first) is the label it gets when REM
\* is tested first.
\* ---------------------------------------------------------------------------
Labelled(rec) == ~isna(rec.heartRate) /\ ~isna(rec.rmssd) /\ ~isna(rec.lfHfRatio)

RemFirstStage(rec, night) ==
    IF ~Labelled(rec) THEN "Unknown"
    ELSE IF rem_criteria(rec, night) THEN "REM"
    ELSE IF deep_criteria(rec, night) THEN "Deep"
    ELSE "Light"

C24_DeepAndRemDisjoint ==
    AfterSleepAnalysis =>
        \A i \in 1..Len(sleep_with_stages) :
            LET rec == passed_sleep_records[i]
            IN  /\ ~(deep_criteria(rec, passed_sleep_records)
                     /\ rem_criteria(rec, passed_sleep_records))
                /\ sleep_with_stages[i].sleep_stage
                       = RemFirstStage(rec, passed_sleep_records)

\* A labelled night with a Deep record and a REM record.
C24_Witness ==
    /\ AfterSleepAnalysis
    /\ \E i, j \in 1..Len(sleep_with_stages) :
           /\ sleep_with_stages[i].sleep_stage = "Deep"
           /\ deep_criteria(passed_sleep_records[i], passed_sleep_records)
           /\ sleep_with_stages[j].sleep_stage = "REM"
           /\ rem_criteria(passed_sleep_records[j], passed_sleep_records)

\* ---------------------------------------------------------------------------
\* C25 as stated: in index_1.main, whenever the night metrics are non-empty
\* the run goes through baselines, scoring and the daily report without
\* raising, an empty baseline mapping included.
\* ---------------------------------------------------------------------------
C25_MainRunsWithoutRaising ==
    ~empty(night_data) => pc # "raised"

\* ---------------------------------------------------------------------------
\* C26: for every date with at least one Sleep record, the row the dynamic
\* baselines return for the date has the rhr, hrv and breathing_rate that
\* the NightMetrics row of calculate_night_metrics has as rhr, rmssd and
\* breathing_rate for the same date, both computed from the same records.
\* ---------------------------------------------------------------------------
BothPipelinesRan == returned # <<>> /\ ~empty(night_data)

LastReturned == returned[Len(returned)]

C26_PipelinesAgreeOnRawValues ==
    BothPipelinesRan =>
        /\ {night_data.rows[i].date : i \in 1..Len(night_data.rows)}
               = {df[k].date : k \in {j \in 1..Len(df) : "Sleep" \in df[j].tags}}
        /\ \A i \in 1..Len(night_data.rows) :
               \E j \in 1..Len(LastReturned.rows) :
                   /\ LastReturned.rows[j].date = night_data.rows[i].date
                   /\ LastReturned.rows[j].rhr = night_data.rows[i].rhr
                   /\ LastReturned.rows[j].hrv = night_data.rows[i].rmssd
                   /\ LastReturned.rows[j].breathing_rate = night_data.rows[i].breathing_rate

\* Both pipelines ran over a date with three Sleep records of different
\* heart rates, whose rhr is a 10th percentile above the minimum, and over
\* a night of fewer records.
C26_Witness ==
    /\ BothPipelinesRan
    /\ Len(night_data.rows) = 1
    /\ night_data.rows[1].record_count = 3
    /\ Gt(night_data.rows[1].rhr, min(Column(df, "heartRate")))
    /\ LastReturned.rows[1].rhr = night_data.rows[1].rhr

\* ---------------------------------------------------------------------------
\* C27: at every step of the date loop of
\* calculate_daily_metrics_with_dynamic_baselines the cumulative Sleep set
\* holds only records whose tags are a list with 'Sleep' and the cumulative
\* non-Sleep set only other records (a record whose tags are not a list
\* among them), so the two are disjoint; together they hold each input
\* record dated <= the current date exactly once; and a pass of the loop
\* only appends to either set.
\* ---------------------------------------------------------------------------
InLoop == pc = "dyn_loop"

Count(recs, r) == Cardinality({i \in 1..Len(recs) : recs[i] = r})

StatedSleep(rec) == is_list(rec.tags) /\ "Sleep" \in rec.tags

\* The input records dated <= the date of the last pass; none before the
\* first pass.
RecordsSoFar ==
    IF result_data = <<>> THEN <<>>
    ELSE SelectSeq(df, LAMBDA r : r.date <= unique_dates[Len(result_data)])

IsPrefix(s, t) == Len(s) <= Len(t) /\ SubSeq(t, 1, Len(s)) = s

CumulativeSetsPartition ==
    InLoop =>
        /\ \A i \in 1..Len(cumulative_sleep) : StatedSleep(cumulative_sleep[i])
        /\ \A i \in 1..Len(cumulative_non_sleep) : ~StatedSleep(cumulative_non_sleep[i])
        /\ Range(cumulative_sleep) \cap Range(cumulative_non_sleep) = {}
        /\ Len(cumulative_sleep) + Len(cumulative_non_sleep) = Len(RecordsSoFar)
        /\ \A r \in Range(df) :
               Count(cumulative_sleep, r) + Count(cumulative_non_sleep, r)
                   = Count(RecordsSoFar, r)

C27_CumulativeSetsPartition ==
    /\ []CumulativeSetsPartition
    /\ [][(InLoop /\ pc' = "dyn_loop") =>
              /\ IsPrefix(cumulative_sleep, cumulative_sleep')
              /\ IsPrefix(cumulative_non_sleep, cumulative_non_sleep')]_vars

\* The second pass of a loop over two dates, with a Sleep record, a record
\* whose tags are not a list and the same record again on the later date.
C27_Witness ==
    /\ InLoop
    /\ Len(result_data) = 2
    /\ Len(cumulative_sleep) = 1
    /\ Len(cumulative_non_sleep) = 2
    /\ \E i \in 1..2 : ~is_list(cumulative_non_sleep[i].tags)
    /\ cumulative_non_sleep[1].date < cumulative_non_sleep[2].date

\* ---------------------------------------------------------------------------
\* C28: when the input has a Sleep record, the dynamic baselines return one
\* row for every unique date of the input, dates without a Sleep record
\* included; a row's stress_index is a number exactly when the row's avg_hr,
\* hrv, baseline_rhr and baseline_hrv are defined and both baselines are not
\* 0, which requires a non-Sleep record and a Sleep record on the row's
\* date, and it is NaN otherwise.
\* ---------------------------------------------------------------------------
DynReturned == returned # <<>> /\ sleep_only(df) # <<>>

StressInputsUsable(row) ==
    /\ ~isna(row.avg_hr) /\ ~isna(row.hrv)
    /\ ~isna(row.baseline_rhr) /\ row.baseline_rhr # Num(0)
    /\ ~isna(row.baseline_hrv) /\ row.baseline_hrv # Num(0)

C28_OneRowPerDate ==
    DynReturned =>
        LET rows == LastReturned.rows
        IN  /\ {rows[i].date : i \in 1..Len(rows)} = {df[i].date : i \in 1..Len(df)}
            /\ \A i, j \in 1..Len(rows) : i < j => rows[i].date < rows[j].date
            /\ \A i \in 1..Len(rows) :
                   /\ ~isna(rows[i].stress_index) <=> StressInputsUsable(rows[i])
                   /\ ~isna(rows[i].stress_index) =>
                          /\ not_sleep(on_date(df, rows[i].date)) # <<>>
                          /\ sleep_only(on_date(df, rows[i].date)) # <<>>
                          /\ rows[i].avg_hr
                                 = mean(Column(not_sleep(on_date(df, rows[i].date)),
                                               "heartRate"))

\* A returned table with a row of a date without Sleep records, whose
\* stress_index is NaN, and a row with a defined stress_index.
C28_Witness ==
    /\ DynReturned
    /\ \E i, j \in 1..Len(LastReturned.rows) :
           /\ sleep_only(on_date(df, LastReturned.rows[i].date)) = <<>>
           /\ isna(LastReturned.rows[i].stress_index)
           /\ ~isna(LastReturned.rows[j].stress_index)

\* ---------------------------------------------------------------------------
\* C29 as stated: the sleep quality components shown for the latest night
\* (rmssd_score, hr_drop_score, duration_score, lfhf_penalty) equal the
\* components calculate_recovery_score used for that night's stored
\* sleep_quality.
\* ---------------------------------------------------------------------------
C29_ShownComponentsAreUsed ==
    AfterSleepAnalysis =>
        LET latest == latest_day_of(night_data)
        IN  /\ quality_components.rmssd_score = hrv_score(latest, baselines)
            /\ quality_components.hr_drop_score = hr_drop_score(latest, baselines)
            /\ quality_components.duration_score = duration_score(latest)
            /\ quality_components.lfhf_penalty = lfhf_penalty(latest)

\* ---------------------------------------------------------------------------
\* C30: exclude_records_by_session_id is all-or-nothing.  After it returns,
\* either every row of the sessions with the given recording_session_id is
\* gone from rr_intervals, hrv_metrics, session_tags and hrv_sessions, every
\* other row is kept and it returned (number of sessions, no error); or the
\* four tables are as before the call and it returned an error, or 0 with
\* 'No records found' when no session matches.
\* ---------------------------------------------------------------------------
ExcludeReturned == pc = "exclude_returned"

\* The sessions the call is about, in the tables as they were before it.
GivenSessions ==
    {s.id : s \in {t \in db_before.hrv_sessions : t.recording_session_id = exclude_arg}}

AllGone ==
    /\ db.hrv_sessions = {s \in db_before.hrv_sessions : s.id \notin GivenSessions}
    /\ db.rr_intervals = {r \in db_before.rr_intervals : r.session_id \notin GivenSessions}
    /\ db.hrv_metrics = {r \in db_before.hrv_metrics : r.session_id \notin GivenSessions}
    /\ db.session_tags = {r \in db_before.session_tags : r.session_id \notin GivenSessions}

C30_AllOrNothing ==
    ExcludeReturned =>
        \/ /\ GivenSessions # {}
           /\ AllGone
           /\ exclude_ret = [count |-> Cardinality(GivenSessions), error |-> "None"]
        \/ /\ db = db_before
           /\ \/ exclude_ret.count = -1 /\ exclude_ret.error # "None"
              \/ /\ GivenSessions = {}
                 /\ exclude_ret = [count |-> 0, error |-> "No records found"]

\* The last delete failed after the three before it had removed rows of two
\* sessions, and the tables are as before the call.
C30_Witness ==
    /\ ExcludeReturned
    /\ exclude_ret.error = "hrv_sessions delete or commit failed"
    /\ Cardinality(session_ids) = 2
    /\ \A i \in session_ids :
           /\ [session_id |-> i] \in db.rr_intervals
           /\ [session_id |-> i] \in db.hrv_metrics
           /\ [session_id |-> i] \in db.session_tags
    /\ db = db_before

=============================================================================
